---------------------------- MODULE Spec2Model ----------------------------
(***************************************************************************)
(* A model of the platformer core of rustman: the swept AABB test, the     *)
(* four physics stages of FixedUpdate, the player controller chain and     *)
(* the swing chain of Update.                                              *)
(*                                                                         *)
(* Numbers.  Every f32 of the source is an exact rational here, a record   *)
(* [n |-> numerator, d |-> denominator] in lowest terms with d > 0; the    *)
(* two infinities of f32 are [n |-> -1, d |-> 0] and [n |-> 1, d |-> 0].   *)
(* Rounding of f32 is not modelled: a result stated here as an equality    *)
(* is an equality of the real-number values the code computes.             *)
(***************************************************************************)
EXTENDS Integers, Sequences, FiniteSets, TLC

VARIABLES
    pc,             \* where the program is: the next stage to run
    q,              \* SweptSpec: the arguments of one swept_aabb_collision call
    res,            \* SweptSpec: what that call returned
    player,         \* the components of the player entity
    geometry_query, \* the LevelGeometry entities, in iteration order
    swing_points,   \* the SwingPoint entities, in iteration order
    world,          \* the other level entities and resources, and the
                    \* commands the level and ability systems have queued
    keys,           \* what Input<KeyCode> answers in the current frame
    ppc,            \* how many systems of the player chain ran this frame
    spc,            \* how many systems of the swing chain ran this frame
    detect_local,   \* the Local of detect_swing_points_system
    attach_local,   \* the Local of attach_to_swing_system
    cmds,           \* Commands queued in this frame, applied at its end
    ticks,          \* schedule runs so far (FixedUpdate and Update)
    hist,           \* the last physics step: the entity before gravity (p0),
                    \* before resolution (p1), the collision resolved (hit)
    air,            \* the run of airborne, collision-free steps so far
    ref             \* position and velocity the frame yields when the player
                    \* chain runs wholly before the swing chain

vars == <<pc, q, res, player, geometry_query, swing_points, world, keys, ppc, spc,
          detect_local, attach_local, cmds, ticks, hist, air, ref>>

-----------------------------------------------------------------------------
(* f32 arithmetic, exact *)

Abs(i) == IF i < 0 THEN -i ELSE i

RECURSIVE Gcd(_, _)
Gcd(a, b) == IF b = 0 THEN a ELSE Gcd(b, a % b)

\* the rational n/d (d # 0) in lowest terms with a positive denominator
Norm(n, d) ==
    LET g == Gcd(Abs(n), Abs(d))
        s == IF d < 0 THEN -1 ELSE 1
    IN  [n |-> s * (n \div g), d |-> s * (d \div g)]

R(i) == [n |-> i, d |-> 1]

NEG_INFINITY == [n |-> -1, d |-> 0]
INFINITY == [n |-> 1, d |-> 0]

\* common factors are divided out before multiplying, to keep the integers small
RAdd(a, b) ==
    IF a.d = 0 \/ b.d = 0 THEN Norm(a.n * b.d + b.n * a.d, a.d * b.d)
    ELSE LET g == Gcd(a.d, b.d)
         IN  Norm(a.n * (b.d \div g) + b.n * (a.d \div g), (a.d \div g) * b.d)
RNeg(a) == [n |-> -a.n, d |-> a.d]
RSub(a, b) == RAdd(a, RNeg(b))
RMul(a, b) ==
    IF a.d = 0 \/ b.d = 0 THEN Norm(a.n * b.n, a.d * b.d)
    ELSE LET g1 == Gcd(Abs(a.n), b.d)
             g2 == Gcd(Abs(b.n), a.d)
         IN  Norm((a.n \div g1) * (b.n \div g2), (a.d \div g2) * (b.d \div g1))
\* a / b for finite a and finite b # 0
RDiv(a, b) == RMul(a, IF b.n < 0 THEN [n |-> -b.d, d |-> -b.n] ELSE [n |-> b.d, d |-> b.n])

\* a < b, also when either is infinite
RLt(a, b) ==
    IF a.d = 0 /\ b.d = 0 THEN a.n < b.n
    ELSE IF a.d = 0 \/ b.d = 0 THEN a.n * b.d < b.n * a.d
    ELSE LET g == Gcd(a.d, b.d) IN a.n * (b.d \div g) < b.n * (a.d \div g)
RLe(a, b) == ~RLt(b, a)
RMax(a, b) == IF RLt(a, b) THEN b ELSE a
RMin(a, b) == IF RLt(b, a) THEN b ELSE a
RAbs(a) == [n |-> Abs(a.n), d |-> a.d]

Vec2(x, y) == [x |-> x, y |-> y]
ZERO == Vec2(R(0), R(0))

\* components.rs
Collider(width, height) ==
    [width |-> width, height |-> height, offset_x |-> R(0), offset_y |-> R(0)]
LevelGeometry(x, y, width, height) ==
    [x |-> x, y |-> y, width |-> width, height |-> height]

-----------------------------------------------------------------------------
(* physics.rs: swept AABB collision detection *)

None == [hit |-> FALSE, time |-> R(0), normal |-> ZERO]
Some(time, normal) == [hit |-> TRUE, time |-> time, normal |-> normal]

\* the entity's box: position plus collider offset, physics.rs 58-61
entity_left(pos, collider) == RAdd(pos.x, collider.offset_x)
entity_right(pos, collider) == RAdd(entity_left(pos, collider), collider.width)
entity_top(pos, collider) == RAdd(pos.y, collider.offset_y)
entity_bottom(pos, collider) == RAdd(entity_top(pos, collider), collider.height)

\* the rectangle's box, physics.rs 64-67
geo_left(geometry) == geometry.x
geo_right(geometry) == RAdd(geometry.x, geometry.width)
geo_top(geometry) == geometry.y
geo_bottom(geometry) == RAdd(geometry.y, geometry.height)

\* the signed distance to travel on one axis until the boxes begin to
\* overlap there (entry_x, entry_y), -infinity when the axis has no movement
entry_dist(m, ent_lo, ent_hi, g_lo, g_hi) ==
    IF RLt(R(0), m) THEN RSub(g_lo, ent_hi)
    ELSE IF RLt(m, R(0)) THEN RSub(g_hi, ent_lo)
    ELSE NEG_INFINITY

\* ... and until they stop overlapping there (exit_x, exit_y)
exit_dist(m, ent_lo, ent_hi, g_lo, g_hi) ==
    IF RLt(R(0), m) THEN RSub(g_hi, ent_lo)
    ELSE IF RLt(m, R(0)) THEN RSub(g_lo, ent_hi)
    ELSE INFINITY

\* entry_time_of taking an axis without movement as entered at time 0
entry_time_of_at_once(dist, m) == IF m # R(0) THEN RDiv(dist, m) ELSE R(0)

\* entry_time_x, entry_time_y: the distance over the movement, no division
\* when the movement is zero
entry_time_of(dist, m) == IF m # R(0) THEN RDiv(dist, m) ELSE NEG_INFINITY
exit_time_of(dist, m) == IF m # R(0) THEN RDiv(dist, m) ELSE INFINITY

\* mutant of no_collision: a contact made exactly at the end of the
\* displacement is rejected
no_collision_rejects_end(entry_time_x, entry_time_y, exit_time_x, exit_time_y) ==
    LET entry_time == RMax(entry_time_x, entry_time_y)
        exit_time == RMin(exit_time_x, exit_time_y)
    IN  \/ RLt(exit_time, entry_time)
        \/ (RLt(entry_time_x, R(0)) /\ RLt(entry_time_y, R(0)))
        \/ RLe(R(1), entry_time)

\* the rejection test of physics.rs 125 (&& binds tighter than ||)
no_collision(entry_time_x, entry_time_y, exit_time_x, exit_time_y) ==
    LET entry_time == RMax(entry_time_x, entry_time_y)
        exit_time == RMin(exit_time_x, exit_time_y)
    IN  \/ RLt(exit_time, entry_time)
        \/ (RLt(entry_time_x, R(0)) /\ RLt(entry_time_y, R(0)))
        \/ RLt(R(1), entry_time)

\* mutant of collision_normal: the axis that entered first is taken
collision_normal_earlier_axis(entry_time_x, entry_time_y, movement) ==
    IF RLt(entry_time_x, entry_time_y)
    THEN IF RLt(R(0), movement.x) THEN Vec2(R(-1), R(0))
                                  ELSE Vec2(R(1), R(0))
    ELSE IF RLt(R(0), movement.y) THEN Vec2(R(0), R(-1))
                                  ELSE Vec2(R(0), R(1))

\* the contact normal, physics.rs 130-140
collision_normal(entry_time_x, entry_time_y, movement) ==
    IF RLt(entry_time_y, entry_time_x)
    THEN IF RLt(R(0), movement.x) THEN Vec2(R(-1), R(0))    \* hit left side
                                  ELSE Vec2(R(1), R(0))     \* hit right side
    ELSE IF RLt(R(0), movement.y) THEN Vec2(R(0), R(-1))    \* hit top side
                                  ELSE Vec2(R(0), R(1))     \* hit bottom side

swept_aabb_collision(pos, collider, geometry, movement) ==
    LET el == entity_left(pos, collider)
        er == entity_right(pos, collider)
        et == entity_top(pos, collider)
        eb == entity_bottom(pos, collider)
        gl == geo_left(geometry)
        gr == geo_right(geometry)
        gt == geo_top(geometry)
        gb == geo_bottom(geometry)
        entry_time_x == entry_time_of(entry_dist(movement.x, el, er, gl, gr), movement.x)
        exit_time_x == exit_time_of(exit_dist(movement.x, el, er, gl, gr), movement.x)
        entry_time_y == entry_time_of(entry_dist(movement.y, et, eb, gt, gb), movement.y)
        exit_time_y == exit_time_of(exit_dist(movement.y, et, eb, gt, gb), movement.y)
        entry_time == RMax(entry_time_x, entry_time_y)
    IN  IF no_collision(entry_time_x, entry_time_y, exit_time_x, exit_time_y)
        THEN None
        ELSE Some(RMax(entry_time, R(0)),
                  collision_normal(entry_time_x, entry_time_y, movement))

-----------------------------------------------------------------------------
(* physics.rs: the four stages of FixedUpdate, each a function of the     *)
(* player entity p (a record of its components) and the level geometry    *)
(* (a sequence of rectangles, in query iteration order)                   *)

GRAVITY == 980
FIXED_TIMESTEP == Norm(1, 60)
GROUND_CHECK_EPSILON == 2
SLOPE_FRICTION == Norm(3, 10)
\* tan(MIN_SLOPE_ANGLE) for MIN_SLOPE_ANGLE = 0.1 rad: |atan2(x, y)| < 0.1
\* exactly when y > 0 and |x| < tan(0.1) * y
TAN_MIN_SLOPE_ANGLE == Norm(100335, 1000000)

\* time.delta_seconds() of Time<Fixed>
delta_seconds == FIXED_TIMESTEP

\* mutant of apply_gravity: gravity also acts on a grounded entity
apply_gravity_always(p) ==
    [p EXCEPT !.vel.y = RAdd(@, RMul(R(GRAVITY), delta_seconds))]

\* physics.rs 38-47
apply_gravity(p) ==
    IF ~p.grounded.is_grounded
    THEN [p EXCEPT !.vel.y = RAdd(@, RMul(R(GRAVITY), delta_seconds))]
    ELSE p

\* the loop of physics.rs 157-168 from rectangle i on: the earliest
\* collision so far is replaced only by a strictly earlier one
RECURSIVE find_earliest(_, _, _, _, _, _, _)
find_earliest(pos, collider, geos, movement, i, earliest_time, earliest_collision) ==
    IF i > Len(geos) THEN earliest_collision
    ELSE LET c == swept_aabb_collision(pos, collider, geos[i], movement)
         IN  IF c.hit /\ RLt(c.time, earliest_time)
             THEN find_earliest(pos, collider, geos, movement, i + 1, c.time, c)
             ELSE find_earliest(pos, collider, geos, movement, i + 1,
                                earliest_time, earliest_collision)

\* movement of the step and the earliest collision on it, physics.rs 154-168
step_movement(p) ==
    Vec2(RMul(p.vel.x, delta_seconds), RMul(p.vel.y, delta_seconds))

earliest_collision(p, geos) ==
    find_earliest(p.pos, p.collider, geos, step_movement(p), 1, R(1), None)

\* mutant of project_velocity: the velocity is reflected off the surface
project_velocity_reflect(velocity, normal) ==
    LET dot == RAdd(RMul(velocity.x, normal.x), RMul(velocity.y, normal.y))
    IN  Vec2(RSub(velocity.x, RMul(RMul(R(2), dot), normal.x)),
             RSub(velocity.y, RMul(RMul(R(2), dot), normal.y)))

\* physics.rs 176-178: remove the velocity component along the normal
project_velocity(velocity, normal) ==
    LET dot == RAdd(RMul(velocity.x, normal.x), RMul(velocity.y, normal.y))
    IN  Vec2(RSub(velocity.x, RMul(dot, normal.x)),
             RSub(velocity.y, RMul(dot, normal.y)))

\* resolve_collisions moving the full distance also when it found a collision
resolve_collisions_full_distance(p, geos) ==
    LET c == earliest_collision(p, geos)
    IN  [p EXCEPT
           !.pos = Vec2(RAdd(p.pos.x, RMul(p.vel.x, delta_seconds)),
                        RAdd(p.pos.y, RMul(p.vel.y, delta_seconds))),
           !.vel = IF c.hit THEN project_velocity(p.vel, c.normal) ELSE p.vel]

resolve_collisions(p, geos) ==
    LET c == earliest_collision(p, geos)
    IN  IF c.hit
        THEN [p EXCEPT
                !.pos = Vec2(RAdd(p.pos.x, RMul(RMul(p.vel.x, delta_seconds), c.time)),
                             RAdd(p.pos.y, RMul(RMul(p.vel.y, delta_seconds), c.time))),
                !.vel = project_velocity(p.vel, c.normal)]
        ELSE [p EXCEPT
                !.pos = Vec2(RAdd(p.pos.x, RMul(p.vel.x, delta_seconds)),
                             RAdd(p.pos.y, RMul(p.vel.y, delta_seconds)))]

GroundedState(is_grounded, ground_normal) ==
    [is_grounded |-> is_grounded, ground_normal |-> ground_normal]

\* the loop of physics.rs 199-210 from rectangle i on; it stops at the first
\* rectangle met by the short downward sweep before its end with a normal
\* pointing up
RECURSIVE find_ground(_, _, _, _)
find_ground(position, collider, geos, i) ==
    IF i > Len(geos) THEN GroundedState(FALSE, ZERO)
    ELSE LET c == swept_aabb_collision(position, collider, geos[i],
                                       Vec2(R(0), R(GROUND_CHECK_EPSILON)))
         IN  IF c.hit /\ RLt(c.time, R(1)) /\ RLt(c.normal.y, Norm(-1, 2))
             THEN GroundedState(TRUE, c.normal)
             ELSE find_ground(position, collider, geos, i + 1)

\* mutant of update_grounded_state: an airborne result keeps the normal of
\* the previous state
update_grounded_state_stale(position, collider, prev, geos) ==
    LET g == find_ground(position, collider, geos, 1)
    IN  IF g.is_grounded THEN g ELSE GroundedState(FALSE, prev.ground_normal)

\* mutant of update_grounded_state: the ground is recorded with the normal
\* of a 3-4-5 incline
update_grounded_state_tilted(position, collider, prev, geos) ==
    LET g == find_ground(position, collider, geos, 1)
    IN  IF g.is_grounded THEN GroundedState(TRUE, Vec2(Norm(3, 5), Norm(-4, 5)))
        ELSE g

\* physics.rs 188-215; prev is the GroundedState the system holds as &mut
update_grounded_state(position, collider, prev, geos) ==
    find_ground(position, collider, geos, 1)

\* |normal.x.atan2(-normal.y)| < MIN_SLOPE_ANGLE, physics.rs 231-236
slope_is_flat(normal) ==
    /\ RLt(R(0), RNeg(normal.y))
    /\ RLt(RAbs(normal.x), RMul(TAN_MIN_SLOPE_ANGLE, RNeg(normal.y)))

\* sin(normal.x.atan2(-normal.y)) is normal.x for a normal of length one
is_unit(normal) ==
    RAdd(RMul(normal.x, normal.x), RMul(normal.y, normal.y)) = R(1)

\* apply_slope_physics without the test of is_grounded
apply_slope_physics_airborne(p) ==
    IF slope_is_flat(p.grounded.ground_normal)
    THEN p
    ELSE LET normal == p.grounded.ground_normal
             sliding_acceleration == RMul(R(GRAVITY), normal.x)
             slope_direction == Vec2(RNeg(normal.y), normal.x)
             v1 == Vec2(RAdd(p.vel.x, RMul(RMul(sliding_acceleration, slope_direction.x),
                                           delta_seconds)),
                        RAdd(p.vel.y, RMul(RMul(sliding_acceleration, slope_direction.y),
                                           delta_seconds)))
             velocity_along_slope == RAdd(RMul(v1.x, slope_direction.x),
                                          RMul(v1.y, slope_direction.y))
             friction_force == RMul(RNeg(velocity_along_slope), SLOPE_FRICTION)
         IN  [p EXCEPT !.vel =
                Vec2(RAdd(v1.x, RMul(RMul(friction_force, slope_direction.x), delta_seconds)),
                     RAdd(v1.y, RMul(RMul(friction_force, slope_direction.y), delta_seconds)))]

\* physics.rs 218-256; the sliding branch is computed for unit normals
apply_slope_physics(p) ==
    IF ~p.grounded.is_grounded \/ slope_is_flat(p.grounded.ground_normal)
    THEN p
    ELSE LET normal == p.grounded.ground_normal
             sliding_acceleration == RMul(R(GRAVITY), normal.x)
             slope_direction == Vec2(RNeg(normal.y), normal.x)
             v1 == Vec2(RAdd(p.vel.x, RMul(RMul(sliding_acceleration, slope_direction.x),
                                           delta_seconds)),
                        RAdd(p.vel.y, RMul(RMul(sliding_acceleration, slope_direction.y),
                                           delta_seconds)))
             velocity_along_slope == RAdd(RMul(v1.x, slope_direction.x),
                                          RMul(v1.y, slope_direction.y))
             friction_force == RMul(RNeg(velocity_along_slope), SLOPE_FRICTION)
         IN  [p EXCEPT !.vel =
                Vec2(RAdd(v1.x, RMul(RMul(friction_force, slope_direction.x), delta_seconds)),
                     RAdd(v1.y, RMul(RMul(friction_force, slope_direction.y), delta_seconds)))]

-----------------------------------------------------------------------------
(* player.rs: the controller chain of Update *)

MOVE_SPEED == 200
BASE_JUMP_VELOCITY == -400
HIGH_JUMP_VELOCITY == -600
WALL_CLIMB_SPEED == 150
WALL_JUMP_HORIZONTAL_VELOCITY == 250
WALL_JUMP_VERTICAL_VELOCITY == -450

PlayerIntent(move_left, move_right, jump_pressed, jump_just_released) ==
    [move_left |-> move_left, move_right |-> move_right,
     jump_pressed |-> jump_pressed, jump_just_released |-> jump_just_released]

WallClimbState(is_clinging, wall_normal) ==
    [is_clinging |-> is_clinging, wall_normal |-> wall_normal]

\* the keyboard is read into the intent; keyboard is what Input<KeyCode>
\* answers this frame for the four questions asked
process_input_system(p, keyboard) == [p EXCEPT !.intent = keyboard]

\* mutant of apply_horizontal_movement_system: also applied in the air
apply_horizontal_movement_system_air(p) ==
    IF p.intent.move_right /\ ~p.intent.move_left
    THEN [p EXCEPT !.vel.x = R(MOVE_SPEED)]
    ELSE IF p.intent.move_left /\ ~p.intent.move_right
    THEN [p EXCEPT !.vel.x = R(-MOVE_SPEED)]
    ELSE [p EXCEPT !.vel.x = R(0)]

\* player.rs 50-65
apply_horizontal_movement_system(p) ==
    IF p.grounded.is_grounded
    THEN IF p.intent.move_right /\ ~p.intent.move_left
         THEN [p EXCEPT !.vel.x = R(MOVE_SPEED)]
         ELSE IF p.intent.move_left /\ ~p.intent.move_right
         THEN [p EXCEPT !.vel.x = R(-MOVE_SPEED)]
         ELSE [p EXCEPT !.vel.x = R(0)]
    ELSE p

\* mutant of apply_jump_system: the wall jump does not return, so the
\* ground jump and the release cut follow it
apply_jump_system_no_return(p) ==
    LET p0 == IF p.wall.is_clinging /\ p.intent.jump_pressed
              THEN [p EXCEPT !.vel = Vec2(RMul(p.wall.wall_normal.x,
                                               R(WALL_JUMP_HORIZONTAL_VELOCITY)),
                                          R(WALL_JUMP_VERTICAL_VELOCITY)),
                             !.wall.is_clinging = FALSE]
              ELSE p
        p1 == IF p0.grounded.is_grounded /\ p0.intent.jump_pressed
              THEN IF "HighJump" \in p0.abilities
                   THEN [p0 EXCEPT !.vel.y = R(HIGH_JUMP_VELOCITY)]
                   ELSE [p0 EXCEPT !.vel.y = R(BASE_JUMP_VELOCITY)]
              ELSE p0
    IN  IF p1.intent.jump_just_released /\ RLt(p1.vel.y, R(0))
        THEN [p1 EXCEPT !.vel.y = RMul(@, Norm(1, 2))]
        ELSE p1

\* mutant of apply_jump_system: the ground jump does not ask for the ground
apply_jump_system_air_jump(p) ==
    IF p.wall.is_clinging /\ p.intent.jump_pressed
    THEN [p EXCEPT !.vel = Vec2(RMul(p.wall.wall_normal.x, R(WALL_JUMP_HORIZONTAL_VELOCITY)),
                                R(WALL_JUMP_VERTICAL_VELOCITY)),
                   !.wall.is_clinging = FALSE]
    ELSE LET p1 == IF p.intent.jump_pressed
                   THEN IF "HighJump" \in p.abilities
                        THEN [p EXCEPT !.vel.y = R(HIGH_JUMP_VELOCITY)]
                        ELSE [p EXCEPT !.vel.y = R(BASE_JUMP_VELOCITY)]
                   ELSE p
         IN  IF p1.intent.jump_just_released /\ RLt(p1.vel.y, R(0))
             THEN [p1 EXCEPT !.vel.y = RMul(@, Norm(1, 2))]
             ELSE p1

\* mutant of apply_jump_system: the release cut does not ask for the sign
apply_jump_system_cut_descending(p) ==
    IF p.wall.is_clinging /\ p.intent.jump_pressed
    THEN [p EXCEPT !.vel = Vec2(RMul(p.wall.wall_normal.x, R(WALL_JUMP_HORIZONTAL_VELOCITY)),
                                R(WALL_JUMP_VERTICAL_VELOCITY)),
                   !.wall.is_clinging = FALSE]
    ELSE LET p1 == IF p.grounded.is_grounded /\ p.intent.jump_pressed
                   THEN IF "HighJump" \in p.abilities
                        THEN [p EXCEPT !.vel.y = R(HIGH_JUMP_VELOCITY)]
                        ELSE [p EXCEPT !.vel.y = R(BASE_JUMP_VELOCITY)]
                   ELSE p
         IN  IF p1.intent.jump_just_released
             THEN [p1 EXCEPT !.vel.y = RMul(@, Norm(1, 2))]
             ELSE p1

\* player.rs 68-113
apply_jump_system(p) ==
    IF p.wall.is_clinging /\ p.intent.jump_pressed
    THEN \* wall jump, then return
         [p EXCEPT !.vel = Vec2(RMul(p.wall.wall_normal.x, R(WALL_JUMP_HORIZONTAL_VELOCITY)),
                                R(WALL_JUMP_VERTICAL_VELOCITY)),
                   !.wall.is_clinging = FALSE]
    ELSE LET p1 == IF p.grounded.is_grounded /\ p.intent.jump_pressed
                   THEN IF "HighJump" \in p.abilities
                        THEN [p EXCEPT !.vel.y = R(HIGH_JUMP_VELOCITY)]
                        ELSE [p EXCEPT !.vel.y = R(BASE_JUMP_VELOCITY)]
                   ELSE p
         IN  IF p1.intent.jump_just_released /\ RLt(p1.vel.y, R(0))
             THEN [p1 EXCEPT !.vel.y = RMul(@, Norm(1, 2))]
             ELSE p1

\* the loop of player.rs 147-162 from rectangle i on: does a sweep of 10
\* pixels upward meet, before its end, a rectangle whose normal is
\* horizontal and on the side of the wall clung to
RECURSIVE wall_continues_above(_, _, _)
wall_continues_above(p, geos, i) ==
    IF i > Len(geos) THEN FALSE
    ELSE LET c == swept_aabb_collision(p.pos, p.collider, geos[i], Vec2(R(0), R(-10)))
         IN  \/ /\ c.hit
                /\ RLt(c.time, R(1))
                /\ RLt(Norm(1, 2), RAbs(c.normal.x))
                /\ \/ RLt(R(0), c.normal.x) /\ RLt(R(0), p.wall.wall_normal.x)
                   \/ RLt(c.normal.x, R(0)) /\ RLt(p.wall.wall_normal.x, R(0))
             \/ wall_continues_above(p, geos, i + 1)

\* mutant of update_wall_cling_state: the grounded state is not consulted
update_wall_cling_state_grounded(p, geos) ==
    LET has_wall_climb == "WallClimb" \in p.abilities
        wall_detected == p.wall.wall_normal # ZERO
        wall_on_left == RLt(R(0), p.wall.wall_normal.x)
        wall_on_right == RLt(p.wall.wall_normal.x, R(0))
        pressing_toward_wall == \/ wall_on_left /\ p.intent.move_left
                                \/ wall_on_right /\ p.intent.move_right
    IN  IF p.wall.is_clinging /\ ~wall_continues_above(p, geos, 1)
        THEN [p EXCEPT !.wall.is_clinging = FALSE]
        ELSE IF has_wall_climb /\ wall_detected
             THEN [p EXCEPT !.wall.is_clinging = pressing_toward_wall]
             ELSE [p EXCEPT !.wall.is_clinging = FALSE]

\* mutant of update_wall_cling_state: any horizontal input counts as
\* pressing toward the wall
update_wall_cling_state_any_press(p, geos) ==
    LET has_wall_climb == "WallClimb" \in p.abilities
        wall_detected == p.wall.wall_normal # ZERO
        pressing_toward_wall == p.intent.move_left \/ p.intent.move_right
    IN  IF p.wall.is_clinging /\ ~wall_continues_above(p, geos, 1)
        THEN [p EXCEPT !.wall.is_clinging = FALSE]
        ELSE IF has_wall_climb /\ wall_detected /\ ~p.grounded.is_grounded
             THEN [p EXCEPT !.wall.is_clinging = pressing_toward_wall]
             ELSE [p EXCEPT !.wall.is_clinging = FALSE]

\* mutant of update_wall_cling_state: a clinging entity keeps clinging
\* whatever is held
update_wall_cling_state_sticky(p, geos) ==
    LET has_wall_climb == "WallClimb" \in p.abilities
        wall_detected == p.wall.wall_normal # ZERO
        wall_on_left == RLt(R(0), p.wall.wall_normal.x)
        wall_on_right == RLt(p.wall.wall_normal.x, R(0))
        pressing_toward_wall == \/ wall_on_left /\ p.intent.move_left
                                \/ wall_on_right /\ p.intent.move_right
    IN  IF p.wall.is_clinging
        THEN p
        ELSE IF has_wall_climb /\ wall_detected /\ ~p.grounded.is_grounded
             THEN [p EXCEPT !.wall.is_clinging = pressing_toward_wall]
             ELSE [p EXCEPT !.wall.is_clinging = FALSE]

\* player.rs 117-184
update_wall_cling_state(p, geos) ==
    LET has_wall_climb == "WallClimb" \in p.abilities
        wall_detected == p.wall.wall_normal # ZERO
        wall_on_left == RLt(R(0), p.wall.wall_normal.x)
        wall_on_right == RLt(p.wall.wall_normal.x, R(0))
        pressing_toward_wall == \/ wall_on_left /\ p.intent.move_left
                                \/ wall_on_right /\ p.intent.move_right
    IN  IF p.wall.is_clinging /\ ~wall_continues_above(p, geos, 1)
        THEN [p EXCEPT !.wall.is_clinging = FALSE]      \* reached the top: return
        ELSE IF has_wall_climb /\ wall_detected /\ ~p.grounded.is_grounded
             THEN [p EXCEPT !.wall.is_clinging = pressing_toward_wall]
             ELSE [p EXCEPT !.wall.is_clinging = FALSE]

\* mutant of apply_wall_climb_movement_system: the horizontal velocity is kept
apply_wall_climb_movement_system_keeps_x(p) ==
    IF p.wall.is_clinging
    THEN [p EXCEPT !.vel.y = IF p.intent.move_left \/ p.intent.move_right
                             THEN R(-WALL_CLIMB_SPEED) ELSE R(0)]
    ELSE p

\* player.rs 187-206
apply_wall_climb_movement_system(p) ==
    IF p.wall.is_clinging
    THEN [p EXCEPT !.vel = Vec2(R(0),
                                IF p.intent.move_left \/ p.intent.move_right
                                THEN R(-WALL_CLIMB_SPEED) ELSE R(0))]
    ELSE p

-----------------------------------------------------------------------------
(* swing.rs: the swing chain of Update *)

SWING_DAMPING == Norm(98, 100)
SWING_INPUT_TORQUE == 2

NoSwing == [present |-> FALSE, anchor_point |-> ZERO,
            rope_length |-> R(0), angular_velocity |-> R(0)]
SwingState(anchor_point, rope_length, angular_velocity) ==
    [present |-> TRUE, anchor_point |-> anchor_point,
     rope_length |-> rope_length, angular_velocity |-> angular_velocity]

\* Squared distances need more than 32 bits: they are kept as fractions of
\* two naturals written in base 2^15, least significant digit first.
Limb == 32768
RECURSIVE Wide(_)
Wide(n) == IF n = 0 THEN << >> ELSE << n % Limb >> \o Wide(n \div Limb)
RECURSIVE Narrow(_)
Narrow(w) == IF w = << >> THEN 0 ELSE Head(w) + Limb * Narrow(Tail(w))
RECURSIVE WAdd(_, _, _)
WAdd(a, b, carry) ==
    IF a = << >> /\ b = << >> THEN (IF carry = 0 THEN << >> ELSE << carry >>)
    ELSE LET x == (IF a = << >> THEN 0 ELSE Head(a))
                  + (IF b = << >> THEN 0 ELSE Head(b)) + carry
         IN  << x % Limb >> \o WAdd(IF a = << >> THEN a ELSE Tail(a),
                                    IF b = << >> THEN b ELSE Tail(b), x \div Limb)
RECURSIVE WScale(_, _, _)
WScale(a, m, carry) ==
    IF a = << >> THEN (IF carry = 0 THEN << >> ELSE << carry >>)
    ELSE LET x == Head(a) * m + carry
         IN  << x % Limb >> \o WScale(Tail(a), m, x \div Limb)
RECURSIVE WMul(_, _)
WMul(a, b) ==
    IF a = << >> \/ b = << >> THEN << >>
    ELSE WAdd(WScale(a, Head(b), 0), << 0 >> \o WMul(a, Tail(b)), 0)
\* -1, 0 or 1 as a is less than, equal to or greater than b
RECURSIVE WCmp(_, _)
WCmp(a, b) ==
    IF a = << >> /\ b = << >> THEN 0
    ELSE LET r == WCmp(IF a = << >> THEN a ELSE Tail(a), IF b = << >> THEN b ELSE Tail(b))
             x == IF a = << >> THEN 0 ELSE Head(a)
             y == IF b = << >> THEN 0 ELSE Head(b)
         IN  IF r # 0 THEN r ELSE IF x < y THEN -1 ELSE IF x > y THEN 1 ELSE 0
WSquare(i) == WMul(Wide(Abs(i)), Wide(Abs(i)))
\* the square of the f32 a
WideSquare(a) == [n |-> WSquare(a.n), d |-> WSquare(a.d)]
WideAdd(a, b) == [n |-> WAdd(WMul(a.n, b.d), WMul(b.n, a.d), 0), d |-> WMul(a.d, b.d)]
WideLt(a, b) == WCmp(WMul(a.n, b.d), WMul(b.n, a.d)) < 0
WideLe(a, b) == ~WideLt(b, a)
\* f32::MAX: above every squared distance
WIDE_MAX == [n |-> << 1 >>, d |-> << >>]

\* Option<(Vec2, f32)> of the two Locals.  The distance is kept as its
\* square (dist2): distances are compared, and comparing squares of
\* non-negative numbers compares the numbers.
NoPoint == [found |-> FALSE, position |-> ZERO, dist2 |-> WideSquare(R(0))]
SomePoint(position, dist2) == [found |-> TRUE, position |-> position, dist2 |-> dist2]

\* the square of Vec2::distance
distance2(a, b) ==
    WideAdd(WideSquare(RSub(a.x, b.x)), WideSquare(RSub(a.y, b.y)))

\* the loop of swing.rs 43-52 from swing point i on; closest2 is the square
\* of closest_distance
RECURSIVE find_closest(_, _, _, _, _)
find_closest(player_position, points, i, closest2, closest_point) ==
    IF i > Len(points) THEN closest_point
    ELSE LET d2 == distance2(player_position, points[i].position)
         IN  IF WideLe(d2, WideSquare(points[i].range)) /\ WideLt(d2, closest2)
             THEN find_closest(player_position, points, i + 1, d2,
                               SomePoint(points[i].position, d2))
             ELSE find_closest(player_position, points, i + 1, closest2, closest_point)

\* the new value of the system's own Local
detect_swing_points_system(p, points) ==
    find_closest(p.pos, points, 1, WIDE_MAX, NoPoint)

\* the square root of a rational that is a square of a rational; the model
\* attaches only at such distances
RECURSIVE isqrt(_, _)
isqrt(n, k) == IF k * k >= n THEN k ELSE isqrt(n, k + 1)
is_square(a) == isqrt(a.n, 0) * isqrt(a.n, 0) = a.n /\ isqrt(a.d, 0) * isqrt(a.d, 0) = a.d
sqrt(a) == Norm(isqrt(a.n, 0), isqrt(a.d, 0))
\* a squared distance as an f32, when it is small enough to be one
narrow_dist2(w) == Norm(Narrow(w.n), Narrow(w.d))

\* attach_to_swing_system without the test that a nearby point was found
attach_to_swing_system_unconditional(p, nearest_swing_point) ==
    IF p.swing.present THEN NoSwing
    ELSE IF "Swing" \notin p.abilities THEN NoSwing
    ELSE IF p.grounded.is_grounded THEN NoSwing
    ELSE IF p.intent.jump_pressed
         THEN SwingState(nearest_swing_point.position,
                         sqrt(narrow_dist2(nearest_swing_point.dist2)), R(0))
         ELSE NoSwing

\* the command queued by attach_to_swing_system, reading its own Local
\* (nearest_swing_point): the SwingState to insert, or NoSwing for none
attach_to_swing_system(p, nearest_swing_point) ==
    IF p.swing.present THEN NoSwing                \* Without<SwingState>
    ELSE IF "Swing" \notin p.abilities THEN NoSwing
    ELSE IF p.grounded.is_grounded THEN NoSwing
    ELSE IF nearest_swing_point.found /\ p.intent.jump_pressed
         THEN SwingState(nearest_swing_point.position,
                         sqrt(narrow_dist2(nearest_swing_point.dist2)), R(0))
         ELSE NoSwing

\* f32 atan2, sin and cos.  The angle of a point level with the anchor and
\* to its right is 0, sin 0 = 0 and cos 0 = 1, all exact.  For a nonzero
\* angle below a tenth of a radian sin and cos have their first-order
\* values, sin a = a and cos a = 1, which the f32 results match to two
\* parts in a thousand; what is checked on them is which system wrote a
\* value and who changed it afterwards, not its digits.  Elsewhere the
\* model has no value for them (Inexact).
Inexact == [n |-> 0, d |-> 0]
atan2(y, x) == IF y = R(0) /\ RLt(R(0), x) THEN R(0) ELSE Inexact
is_small_angle(a) == a # Inexact /\ RLt(RAbs(a), RDiv(R(1), R(10)))
sin(a) == IF a = R(0) THEN R(0) ELSE IF is_small_angle(a) THEN a ELSE Inexact
cos(a) == IF a = R(0) THEN R(1) ELSE IF is_small_angle(a) THEN R(1) ELSE Inexact

\* angular velocity after pendulum acceleration, input torque and damping,
\* swing.rs 116-134
swing_angular_velocity(p, delta_time) ==
    LET angle == atan2(RSub(p.pos.y, p.swing.anchor_point.y),
                       RSub(p.pos.x, p.swing.anchor_point.x))
        angular_acceleration == RMul(RDiv(R(GRAVITY), p.swing.rope_length), sin(angle))
        w1 == RAdd(p.swing.angular_velocity, RMul(angular_acceleration, delta_time))
        w2 == IF p.intent.move_left
              THEN RSub(w1, RMul(R(SWING_INPUT_TORQUE), delta_time)) ELSE w1
        w3 == IF p.intent.move_right
              THEN RAdd(w2, RMul(R(SWING_INPUT_TORQUE), delta_time)) ELSE w2
    IN  RMul(w3, SWING_DAMPING)

\* the integration stays where the model's trigonometry is exact: the
\* entity is level with the anchor and to its right, the rope has a
\* length, and the new angular velocity is zero
swing_is_exact(p, delta_time) ==
    /\ p.pos.y = p.swing.anchor_point.y
    /\ RLt(p.swing.anchor_point.x, p.pos.x)
    /\ p.swing.rope_length # R(0)
    /\ swing_angular_velocity(p, delta_time) = R(0)

\* the integration stays where the model's trigonometry has a value: the
\* entity is level with the anchor and to its right, the rope has a length
\* and the step turns it by less than a tenth of a radian
swing_is_small(p, delta_time) ==
    /\ p.pos.y = p.swing.anchor_point.y
    /\ RLt(p.swing.anchor_point.x, p.pos.x)
    /\ p.swing.rope_length # R(0)
    /\ is_small_angle(RMul(swing_angular_velocity(p, delta_time), delta_time))

\* update_swing_physics_system dragging the anchor to where the entity was
update_swing_physics_system_drags_anchor(p, delta_time) ==
    IF ~p.swing.present THEN p
    ELSE LET angle == atan2(RSub(p.pos.y, p.swing.anchor_point.y),
                            RSub(p.pos.x, p.swing.anchor_point.x))
             w == swing_angular_velocity(p, delta_time)
             new_angle == RAdd(angle, RMul(w, delta_time))
             L == p.swing.rope_length
         IN  [p EXCEPT
                !.swing.angular_velocity = w,
                !.swing.anchor_point = p.pos,
                !.pos = Vec2(RAdd(p.swing.anchor_point.x, RMul(L, cos(new_angle))),
                             RAdd(p.swing.anchor_point.y, RMul(L, sin(new_angle)))),
                !.vel = Vec2(RMul(RMul(RNeg(L), w), sin(new_angle)),
                             RMul(RMul(L, w), cos(new_angle)))]

update_swing_physics_system(p, delta_time) ==
    IF ~p.swing.present THEN p
    ELSE LET angle == atan2(RSub(p.pos.y, p.swing.anchor_point.y),
                            RSub(p.pos.x, p.swing.anchor_point.x))
             w == swing_angular_velocity(p, delta_time)
             new_angle == RAdd(angle, RMul(w, delta_time))
             L == p.swing.rope_length
         IN  [p EXCEPT
                !.swing.angular_velocity = w,
                !.pos = Vec2(RAdd(p.swing.anchor_point.x, RMul(L, cos(new_angle))),
                             RAdd(p.swing.anchor_point.y, RMul(L, sin(new_angle)))),
                !.vel = Vec2(RMul(RMul(RNeg(L), w), sin(new_angle)),
                             RMul(RMul(L, w), cos(new_angle)))]

\* whether release_swing_system queues the removal of SwingState
release_swing_system(p) == p.swing.present /\ p.intent.jump_just_released

-----------------------------------------------------------------------------
(* Levels: level files, transitions between levels and ability gates      *)
(* (plugins/level.rs), and the collection of power-ups                    *)
(* (plugins/ability.rs).  Entities that commands refer to carry an id.    *)

SwingPoint(position, range) == [position |-> position, range |-> range]

\* a Collider used as an area: offset_x and offset_y are its left and top
Area(x, y, width, height) ==
    [width |-> width, height |-> height, offset_x |-> x, offset_y |-> y]

LevelTransitionTrigger(to_level, spawn_point, trigger_area) ==
    [to_level |-> to_level, spawn_point |-> spawn_point, trigger_area |-> trigger_area]

\* has_geometry: the gate entity carries LevelGeometry and AbilityGateGeometry
AbilityGate(id, required_ability, gate_area, is_blocking, has_geometry) ==
    [id |-> id, required_ability |-> required_ability, gate_area |-> gate_area,
     is_blocking |-> is_blocking, has_geometry |-> has_geometry]

PowerUp(id, ability, position) == [id |-> id, ability |-> ability, position |-> position]

\* Option<Res<PendingTransition>>
NoPending == [present |-> FALSE, to_level |-> "", spawn_point |-> ZERO]
PendingTransition(to_level, spawn_point) ==
    [present |-> TRUE, to_level |-> to_level, spawn_point |-> spawn_point]

\* level.rs (the crate's level module): the parsed content of a level file
LevelData(id, width, height, geometry, swing_point_data, power_ups, transitions, ability_gates) ==
    [id |-> id, width |-> width, height |-> height, geometry |-> geometry,
     swing_points |-> swing_point_data, power_ups |-> power_ups,
     transitions |-> transitions, ability_gates |-> ability_gates]

EmptyLevel == LevelData("", R(0), R(0), << >>, << >>, << >>, << >>, << >>)

\* the directory levels/: "cave" is a valid level with a floor, a swing
\* point, a power-up, a way on to a level that does not exist and a gate;
\* "pit" parses but has a floor of width 0; "torn" does not parse; any
\* other name has no file
CaveLevel ==
    LevelData("cave", R(1920), R(1080),
              << [x |-> R(-100), y |-> R(40), width |-> R(600), height |-> R(32)] >>,
              << Vec2(R(200), R(-60)) >>,
              << [ability_type |-> "WallClimb", x |-> R(0), y |-> R(0)] >>,
              << [to_level |-> "void",
                  trigger_area |-> [x |-> R(400), y |-> R(0), width |-> R(32), height |-> R(64)],
                  spawn_point |-> Vec2(R(0), R(0))] >>,
              << [required_ability |-> "WallClimb",
                  gate_area |-> [x |-> R(300), y |-> R(-100), width |-> R(20), height |-> R(140)]] >>)

PitLevel ==
    LevelData("pit", R(1920), R(1080),
              << [x |-> R(-100), y |-> R(40), width |-> R(0), height |-> R(32)] >>,
              << >>, << >>, << >>, << >>)

LevelFile(exists, parses, data) == [exists |-> exists, parses |-> parses, data |-> data]

LevelFiles(name) ==
    IF name = "cave" THEN LevelFile(TRUE, TRUE, CaveLevel)
    ELSE IF name = "pit" THEN LevelFile(TRUE, TRUE, PitLevel)
    ELSE IF name = "torn" THEN LevelFile(TRUE, FALSE, EmptyLevel)
    ELSE LevelFile(FALSE, FALSE, EmptyLevel)

\* whether validate_level_data returns Ok
validate_level_data(level) ==
    /\ level.id # ""
    /\ RLt(R(0), level.width)
    /\ RLt(R(0), level.height)
    /\ \A i \in 1..Len(level.geometry) :
          RLt(R(0), level.geometry[i].width) /\ RLt(R(0), level.geometry[i].height)

\* Result<LevelData, LevelLoadError>
LoadErr == [ok |-> FALSE, level |-> EmptyLevel]
LoadOk(level) == [ok |-> TRUE, level |-> level]

load_level_from_file(name) ==
    LET file == LevelFiles(name)
    IN  IF ~file.exists THEN LoadErr                        \* FileNotFound
        ELSE IF ~file.parses THEN LoadErr                   \* ParseError
        ELSE IF ~validate_level_data(file.data) THEN LoadErr \* ValidationError
        ELSE LoadOk(file.data)

\* the entities spawn_level_entities queues for a level, by kind
spawned_geometry(level) ==
    [i \in 1..Len(level.geometry) |->
        LevelGeometry(level.geometry[i].x, level.geometry[i].y,
                      level.geometry[i].width, level.geometry[i].height)]
spawned_swing_points(level) ==
    [i \in 1..Len(level.swing_points) |-> SwingPoint(level.swing_points[i], R(100))]
spawned_power_ups(level) ==
    [i \in 1..Len(level.power_ups) |->
        PowerUp(<<level.id, i>>, level.power_ups[i].ability_type,
                Vec2(level.power_ups[i].x, level.power_ups[i].y))]
spawned_triggers(level) ==
    [i \in 1..Len(level.transitions) |->
        LevelTransitionTrigger(level.transitions[i].to_level,
                               level.transitions[i].spawn_point,
                               Area(level.transitions[i].trigger_area.x,
                                    level.transitions[i].trigger_area.y,
                                    level.transitions[i].trigger_area.width,
                                    level.transitions[i].trigger_area.height))]
spawned_gates(level) ==
    [i \in 1..Len(level.ability_gates) |->
        AbilityGate(<<level.id, i>>, level.ability_gates[i].required_ability,
                    Area(level.ability_gates[i].gate_area.x,
                         level.ability_gates[i].gate_area.y,
                         level.ability_gates[i].gate_area.width,
                         level.ability_gates[i].gate_area.height),
                    TRUE, FALSE)]

\* the overlap test of level.rs 177-187: the player's box from its
\* position and collider, the trigger's from its area
in_trigger(pos, collider, trigger) ==
    LET player_left == RAdd(pos.x, collider.offset_x)
        player_right == RAdd(player_left, collider.width)
        player_top == RAdd(pos.y, collider.offset_y)
        player_bottom == RAdd(player_top, collider.height)
        trigger_left == trigger.trigger_area.offset_x
        trigger_right == RAdd(trigger_left, trigger.trigger_area.width)
        trigger_top == trigger.trigger_area.offset_y
        trigger_bottom == RAdd(trigger_top, trigger.trigger_area.height)
    IN  /\ RLt(trigger_left, player_right)
        /\ RLt(player_left, trigger_right)
        /\ RLt(trigger_top, player_bottom)
        /\ RLt(player_top, trigger_bottom)

\* detect_level_transitions from trigger i on: the PendingTransition whose
\* insertion is queued, for the first trigger the player is in
RECURSIVE detect_level_transitions(_, _, _)
detect_level_transitions(p, triggers, i) ==
    IF i > Len(triggers) THEN NoPending
    ELSE IF in_trigger(p.pos, p.collider, triggers[i])
         THEN PendingTransition(triggers[i].to_level, triggers[i].spawn_point)
         ELSE detect_level_transitions(p, triggers, i + 1)

\* process_pending_transition leaving the player where it is
process_pending_transition_stays(p, pending) == p

\* the player after process_pending_transition: moved to the spawn point
\* when a transition is pending
process_pending_transition(p, pending) ==
    IF pending.present THEN [p EXCEPT !.pos = pending.spawn_point] ELSE p

\* the LevelGeometry a gate inserts on itself
gate_geometry(gate) ==
    LevelGeometry(gate.gate_area.offset_x, gate.gate_area.offset_y,
                  gate.gate_area.width, gate.gate_area.height)

\* whether the geometry of the gate other lies within 0.1 of gate's area,
\* level.rs 300-303 and 315-318
matches_gate_area(other, gate) ==
    LET geo == gate_geometry(other)
        tenth == RDiv(R(1), R(10))
    IN  /\ other.has_geometry
        /\ RLt(RAbs(RSub(geo.x, gate.gate_area.offset_x)), tenth)
        /\ RLt(RAbs(RSub(geo.y, gate.gate_area.offset_y)), tenth)
        /\ RLt(RAbs(RSub(geo.width, gate.gate_area.width)), tenth)
        /\ RLt(RAbs(RSub(geo.height, gate.gate_area.height)), tenth)

\* the gates whose geometry gate_geometry_query finds matching the gate
matching(seen, gate) ==
    { j \in 1..Len(seen) : matches_gate_area(seen[j], gate) }

GateInsert(id) == [op |-> "insert", id |-> id]
GateRemove(id) == [op |-> "remove", id |-> id]
Min(S) == CHOOSE x \in S : \A y \in S : x <= y

\* the commands update_ability_gates queues for gates i and on; seen is
\* the gates as gate_geometry_query shows them, that is as they were when
\* the system began
RECURSIVE gate_commands(_, _, _)
gate_commands(abilities, seen, i) ==
    IF i > Len(seen) THEN << >>
    ELSE LET gate == seen[i]
             should_block == gate.required_ability \notin abilities
             rest == gate_commands(abilities, seen, i + 1)
         IN  IF gate.is_blocking # should_block
             THEN IF should_block
                  THEN << GateInsert(gate.id) >> \o rest
                  ELSE IF matching(seen, gate) # {}
                       THEN << GateRemove(seen[Min(matching(seen, gate))].id) >> \o rest
                       ELSE rest
             ELSE IF should_block /\ matching(seen, gate) = {}
                  THEN << GateInsert(gate.id) >> \o rest
                  ELSE rest

\* the gates after update_ability_gates: is_blocking is written at once
update_ability_gates(abilities, gates) ==
    [i \in 1..Len(gates) |->
        [gates[i] EXCEPT !.is_blocking = gates[i].required_ability \notin abilities]]

\* the overlap test of ability.rs 20-41: both boxes centred on their
\* positions, the power-up's 32 by 32
collects(pos, collider, power_up) ==
    LET half_w == RDiv(collider.width, R(2))
        half_h == RDiv(collider.height, R(2))
        player_left == RSub(RAdd(pos.x, collider.offset_x), half_w)
        player_right == RAdd(RAdd(pos.x, collider.offset_x), half_w)
        player_top == RSub(RAdd(pos.y, collider.offset_y), half_h)
        player_bottom == RAdd(RAdd(pos.y, collider.offset_y), half_h)
        power_up_left == RSub(power_up.position.x, R(16))
        power_up_right == RAdd(power_up.position.x, R(16))
        power_up_top == RSub(power_up.position.y, R(16))
        power_up_bottom == RAdd(power_up.position.y, R(16))
    IN  /\ RLt(power_up_left, player_right)
        /\ RLt(player_left, power_up_right)
        /\ RLt(power_up_top, player_bottom)
        /\ RLt(player_top, power_up_bottom)

\* the power-ups collect_power_ups_system collects
collected(p, power_ups) ==
    { i \in 1..Len(power_ups) : collects(p.pos, p.collider, power_ups[i]) }

\* collect_power_ups_system leaving its loop at the first power-up collected
collect_power_ups_system_once(p, power_ups) ==
    IF collected(p, power_ups) = {} THEN p
    ELSE [p EXCEPT !.abilities =
             @ \cup { power_ups[Min(collected(p, power_ups))].ability }]

\* the player after collect_power_ups_system
collect_power_ups_system(p, power_ups) ==
    [p EXCEPT !.abilities = @ \cup { power_ups[i].ability : i \in collected(p, power_ups) }]

\* the commands of one Update: the PendingTransition detect queues, whether
\* process_pending_transition ran on a pending transition and what its load
\* returned, the ability set update_ability_gates read and its commands,
\* and the ids of the power-ups collected
NoQueue ==
    [pending |-> NoPending, processed |-> FALSE, loaded |-> LoadErr,
     gate_abilities |-> {}, gate_cmds |-> << >>, collected |-> {}]

\* the level entities besides geometry and swing points, the resources, how
\* far the level chain (lpc) and the ability system (apc) are in the current
\* Update, the commands queued, and the level as the Update found it (old)
World(triggers, power_ups, gates, pending, current_level) ==
    [triggers |-> triggers, power_ups |-> power_ups, gates |-> gates,
     pending |-> pending, current_level |-> current_level,
     lpc |-> 0, apc |-> 0, queue |-> NoQueue,
     old |-> [geometry |-> << >>, swing_points |-> << >>, triggers |-> << >>,
              power_ups |-> << >>, gates |-> << >>, pending |-> NoPending]]

RECURSIVE RemoveOne(_, _)
RemoveOne(seq, x) ==
    IF seq = << >> THEN << >>
    ELSE IF Head(seq) = x THEN Tail(seq)
    ELSE << Head(seq) >> \o RemoveOne(Tail(seq), x)

RECURSIVE Select(_, _)
Select(seq, keep) ==
    IF seq = << >> THEN << >>
    ELSE IF Head(seq) \in keep THEN << Head(seq) >> \o Select(Tail(seq), keep)
    ELSE Select(Tail(seq), keep)

\* the gate commands applied in order to the level [geometry, gates]: an
\* insert gives the gate its geometry (replacing an equal one if it has
\* one), a remove takes the gate's LevelGeometry away; a remove for an
\* entity that no longer exists does nothing
RECURSIVE apply_gate_commands(_, _)
apply_gate_commands(level, gate_cmds) ==
    IF gate_cmds = << >> THEN level
    ELSE LET c == Head(gate_cmds)
             at == { i \in 1..Len(level.gates) : level.gates[i].id = c.id }
             i == Min(at)
             gate == level.gates[i]
             next ==
                 IF at = {} THEN level
                 ELSE IF c.op = "insert" /\ ~gate.has_geometry
                 THEN [geometry |-> Append(level.geometry, gate_geometry(gate)),
                       gates |-> [level.gates EXCEPT ![i].has_geometry = TRUE]]
                 ELSE IF c.op = "remove" /\ gate.has_geometry
                 THEN [geometry |-> RemoveOne(level.geometry, gate_geometry(gate)),
                       gates |-> [level.gates EXCEPT ![i].has_geometry = FALSE]]
                 ELSE level
         IN  apply_gate_commands(next, Tail(gate_cmds))

\* the world when the commands of an Update have been applied, as a record
\* of geometry, swing_points and world: the collected power-ups go; the
\* pending transition detect queued is inserted; if a transition was
\* processed, every entity with LevelGeometry (the gates that carry one
\* included), every trigger, power-up and swing point is despawned, the
\* entities of the loaded level, if it loaded, are spawned and CurrentLevel
\* is set, and PendingTransition is removed; then the gate commands
apply_commands(geometry, points, w) ==
    LET queue == w.queue
        kept_power_ups ==
            Select(w.power_ups, { pu \in { w.power_ups[i] : i \in 1..Len(w.power_ups) } :
                                    pu.id \notin queue.collected })
        kept_gates ==
            Select(w.gates, { g \in { w.gates[i] : i \in 1..Len(w.gates) } :
                                ~g.has_geometry })
        level == queue.loaded.level
        spawns == queue.processed /\ queue.loaded.ok
        geometry1 == IF ~queue.processed THEN geometry
                     ELSE IF spawns THEN spawned_geometry(level) ELSE << >>
        points1 == IF ~queue.processed THEN points
                   ELSE IF spawns THEN spawned_swing_points(level) ELSE << >>
        triggers1 == IF ~queue.processed THEN w.triggers
                     ELSE IF spawns THEN spawned_triggers(level) ELSE << >>
        power_ups1 == IF ~queue.processed THEN kept_power_ups
                      ELSE IF spawns THEN spawned_power_ups(level) ELSE << >>
        gates1 == IF ~queue.processed THEN w.gates
                  ELSE IF spawns THEN kept_gates \o spawned_gates(level) ELSE kept_gates
        pending1 == IF queue.processed THEN NoPending
                    ELSE IF queue.pending.present THEN queue.pending
                    ELSE w.pending
        current1 == IF spawns THEN level.id ELSE w.current_level
        gated == apply_gate_commands([geometry |-> geometry1, gates |-> gates1],
                                     queue.gate_cmds)
    IN  [geometry |-> gated.geometry,
         swing_points |-> points1,
         world |-> [w EXCEPT !.triggers = triggers1, !.power_ups = power_ups1,
                             !.gates = gated.gates, !.pending = pending1,
                             !.current_level = current1]]

-----------------------------------------------------------------------------
(* The program: a Bevy App with PlayerPlugin, PhysicsPlugin and           *)
(* SwingPlugin.  Each frame runs FixedUpdate zero or more times (the      *)
(* four physics stages, chained), then Update: the player chain and the   *)
(* swing chain, each in its own order, with no order between the two.     *)
(* Commands take effect when Update has ended.                            *)

MaxTicks == 3        \* schedule runs (FixedUpdate or Update) in a behaviour

DefaultIntent == PlayerIntent(FALSE, FALSE, FALSE, FALSE)

\* a player entity as the embedding application spawns it; the crate
\* spawns none itself.  Grounded state and intent start at their defaults.
Player(pos, vel, abilities, wall_normal, swing) ==
    [pos |-> pos, vel |-> vel, collider |-> Collider(R(32), R(32)),
     grounded |-> GroundedState(FALSE, ZERO),
     wall |-> WallClimbState(FALSE, wall_normal),
     abilities |-> abilities, swing |-> swing, intent |-> DefaultIntent]

\* levels: a ground slab right under the spawn point; one 8 pixels lower;
\* the same with a ledge off to the side whose top is 2 pixels lower than
\* the entity's feet; a wall and a floor each 8 pixels away
Levels ==
    { << LevelGeometry(R(0), R(32), R(200), R(32)) >>,
      << LevelGeometry(R(0), R(40), R(200), R(32)) >>,
      << LevelGeometry(R(100), R(34), R(50), R(10)),
         LevelGeometry(R(0), R(40), R(200), R(32)) >>,
      << LevelGeometry(R(40), R(-100), R(10), R(140)),
         LevelGeometry(R(-100), R(40), R(300), R(32)) >> }

\* spawn velocities: at rest; the 500 px/s fall of the landing scenario; a
\* fall whose first step covers exactly 8 pixels; a diagonal whose first
\* step covers (16, 16); a rise
SpawnVelocities ==
    { ZERO,
      Vec2(R(0), R(500)),
      Vec2(R(0), RSub(R(480), RMul(R(GRAVITY), FIXED_TIMESTEP))),
      Vec2(R(960), RSub(R(960), RMul(R(GRAVITY), FIXED_TIMESTEP))),
      Vec2(R(0), R(-400)) }

\* ability set, wall normal and swing state the entity is spawned with
Loadouts ==
    { [abilities |-> {}, wall_normal |-> ZERO, swing |-> NoSwing],
      [abilities |-> {"HighJump"}, wall_normal |-> ZERO, swing |-> NoSwing],
      [abilities |-> {"WallClimb"}, wall_normal |-> Vec2(R(1), R(0)), swing |-> NoSwing],
      [abilities |-> {"Swing"}, wall_normal |-> ZERO,
       swing |-> SwingState(Vec2(R(-50), R(0)), R(50), R(0))] }

\* the answers of Input<KeyCode>: nothing, left, right, jump held, jump
\* just released, left with jump
Keyboards ==
    { PlayerIntent(FALSE, FALSE, FALSE, FALSE),
      PlayerIntent(TRUE, FALSE, FALSE, FALSE),
      PlayerIntent(FALSE, TRUE, FALSE, FALSE),
      PlayerIntent(FALSE, FALSE, TRUE, FALSE),
      PlayerIntent(FALSE, FALSE, FALSE, TRUE),
      PlayerIntent(TRUE, FALSE, TRUE, FALSE) }

\* Update's Time: the frame delta at 60 frames per second
frame_delta_seconds == FIXED_TIMESTEP

NoQuery == [pos |-> ZERO, collider |-> Collider(R(0), R(0)),
            geometry |-> LevelGeometry(R(0), R(0), R(0), R(0)), movement |-> ZERO]

NoCmds == [insert |-> NoSwing, remove |-> FALSE]
\* a world with no level entities besides geometry and swing points
NoWorld == World(<< >>, << >>, << >>, NoPending, "")
NoAir == [n |-> 0, v0 |-> R(0)]
NoRef == [valid |-> FALSE, pos |-> ZERO, vel |-> ZERO]

\* the frame's outcome when the player chain runs before the swing chain
player_chain(p, kb, geos) ==
    apply_jump_system(
        apply_wall_climb_movement_system(
            apply_horizontal_movement_system(
                update_wall_cling_state(process_input_system(p, kb), geos))))

sequential_update(p, kb, geos) ==
    update_swing_physics_system(player_chain(p, kb, geos), frame_delta_seconds)

Init ==
    /\ pc = "fixed"
    /\ q = NoQuery
    /\ res = None
    /\ geometry_query \in Levels
    /\ swing_points = << SwingPoint(Vec2(R(-50), R(0)), R(100)) >>
    /\ world = NoWorld
    /\ \E v \in SpawnVelocities, l \in Loadouts :
          player = Player(ZERO, v, l.abilities, l.wall_normal, l.swing)
    /\ keys = DefaultIntent
    /\ ppc = 0
    /\ spc = 0
    /\ detect_local = NoPoint
    /\ attach_local = NoPoint
    /\ cmds = NoCmds
    /\ ticks = 0
    /\ hist = [done |-> FALSE, p0 |-> player, p1 |-> player, hit |-> None]
    /\ air = NoAir
    /\ ref = NoRef

swept_vars == <<q, res>>
level_vars == <<geometry_query, swing_points, world>>
update_vars == <<keys, ppc, spc, detect_local, attach_local, cmds, ref>>

(* FixedUpdate *)

BeginFixed ==
    /\ pc = "fixed"
    /\ ticks < MaxTicks
    /\ pc' = "gravity"
    /\ ticks' = ticks + 1
    /\ UNCHANGED <<player, hist, air, swept_vars, level_vars, update_vars>>

\* the gravity stage handing over to the classification, past the
\* collision resolution
ApplyGravity_skips_resolve ==
    /\ pc = "gravity"
    /\ pc' = "classify"
    /\ player' = apply_gravity(player)
    /\ hist' = [done |-> FALSE, p0 |-> player, p1 |-> player', hit |-> None]
    /\ air' = IF player.grounded.is_grounded THEN NoAir
              ELSE IF air.n = 0 THEN [n |-> 1, v0 |-> player.vel.y]
              ELSE [air EXCEPT !.n = @ + 1]
    /\ UNCHANGED <<ticks, swept_vars, level_vars, update_vars>>

ApplyGravity ==
    /\ pc = "gravity"
    /\ pc' = "resolve"
    /\ player' = apply_gravity(player)
    /\ hist' = [done |-> FALSE, p0 |-> player, p1 |-> player', hit |-> None]
    /\ air' = IF player.grounded.is_grounded THEN NoAir
              ELSE IF air.n = 0 THEN [n |-> 1, v0 |-> player.vel.y]
              ELSE [air EXCEPT !.n = @ + 1]
    /\ UNCHANGED <<ticks, swept_vars, level_vars, update_vars>>

ResolveCollisions ==
    /\ pc = "resolve"
    /\ pc' = "classify"
    /\ player' = resolve_collisions(player, geometry_query)
    /\ hist' = [hist EXCEPT !.hit = earliest_collision(player, geometry_query)]
    /\ air' = IF earliest_collision(player, geometry_query).hit THEN NoAir ELSE air
    /\ UNCHANGED <<ticks, swept_vars, level_vars, update_vars>>

UpdateGroundedState ==
    /\ pc = "classify"
    /\ pc' = "slope"
    /\ player' = [player EXCEPT !.grounded =
                    update_grounded_state(player.pos, player.collider,
                                          player.grounded, geometry_query)]
    /\ UNCHANGED <<ticks, hist, air, swept_vars, level_vars, update_vars>>

ApplySlopePhysics ==
    /\ pc = "slope"
    /\ \/ ~player.grounded.is_grounded
       \/ slope_is_flat(player.grounded.ground_normal)
       \/ is_unit(player.grounded.ground_normal)
    /\ pc' = "fixed"
    /\ player' = apply_slope_physics(player)
    /\ hist' = [hist EXCEPT !.done = TRUE]
    /\ UNCHANGED <<ticks, air, swept_vars, level_vars, update_vars>>

(* Update *)

BeginUpdate ==
    /\ pc = "fixed"
    /\ ticks < MaxTicks
    /\ pc' = "update"
    /\ ticks' = ticks + 1
    /\ keys' \in Keyboards
    /\ ppc' = 0
    /\ spc' = 0
    /\ cmds' = NoCmds
    /\ hist' = [done |-> FALSE, p0 |-> player, p1 |-> player, hit |-> None]
    /\ \E chained \in {player_chain(player, keys', geometry_query)} :
          IF player.swing.present /\ ~swing_is_exact(chained, frame_delta_seconds)
          THEN ref' = NoRef
          ELSE \E r \in {update_swing_physics_system(chained, frame_delta_seconds)} :
                  ref' = [valid |-> TRUE, pos |-> r.pos, vel |-> r.vel]
    /\ UNCHANGED <<player, air, detect_local, attach_local, swept_vars, level_vars>>

\* a system of the player chain that may write velocity.y ends the run of
\* steps in which gravity alone changed it
PlayerSystem(k, p) ==
    /\ pc = "update"
    /\ ppc = k
    /\ ppc' = k + 1
    /\ player' = p
    /\ air' = IF p.vel.y # player.vel.y THEN NoAir ELSE air
    /\ UNCHANGED <<pc, spc, keys, detect_local, attach_local, cmds, ticks, hist,
                   ref, swept_vars, level_vars>>

ProcessInput == PlayerSystem(0, process_input_system(player, keys))
UpdateWallClingState == PlayerSystem(1, update_wall_cling_state(player, geometry_query))
ApplyHorizontalMovement == PlayerSystem(2, apply_horizontal_movement_system(player))
ApplyWallClimbMovement == PlayerSystem(3, apply_wall_climb_movement_system(player))
ApplyJump == PlayerSystem(4, apply_jump_system(player))

DetectSwingPoints ==
    /\ pc = "update"
    /\ spc = 0
    /\ spc' = 1
    /\ detect_local' = detect_swing_points_system(player, swing_points)
    /\ UNCHANGED <<pc, ppc, player, keys, attach_local, cmds, ticks, hist, air,
                   ref, swept_vars, level_vars>>

AttachToSwing ==
    /\ pc = "update"
    /\ spc = 1
    /\ attach_local.found => is_square(narrow_dist2(attach_local.dist2))
    /\ spc' = 2
    /\ cmds' = [cmds EXCEPT !.insert = attach_to_swing_system(player, attach_local)]
    /\ UNCHANGED <<pc, ppc, player, keys, detect_local, attach_local, ticks, hist,
                   air, ref, swept_vars, level_vars>>

UpdateSwingPhysics ==
    /\ pc = "update"
    /\ spc = 2
    /\ player.swing.present => swing_is_exact(player, frame_delta_seconds)
    /\ spc' = 3
    /\ player' = update_swing_physics_system(player, frame_delta_seconds)
    /\ air' = IF player.swing.present THEN NoAir ELSE air
    /\ UNCHANGED <<pc, ppc, keys, detect_local, attach_local, cmds, ticks, hist,
                   ref, swept_vars, level_vars>>

ReleaseSwing ==
    /\ pc = "update"
    /\ spc = 3
    /\ spc' = 4
    /\ cmds' = [cmds EXCEPT !.remove = release_swing_system(player)]
    /\ UNCHANGED <<pc, ppc, player, keys, detect_local, attach_local, ticks, hist,
                   air, ref, swept_vars, level_vars>>

\* the end of Update: the queued commands are applied to the entity
EndUpdate ==
    /\ pc = "update"
    /\ ppc = 5
    /\ spc = 4
    /\ pc' = "fixed"
    /\ player' = IF cmds.insert.present THEN [player EXCEPT !.swing = cmds.insert]
                 ELSE IF cmds.remove THEN [player EXCEPT !.swing = NoSwing]
                 ELSE player
    /\ cmds' = NoCmds
    /\ UNCHANGED <<ppc, spc, keys, detect_local, attach_local, ticks, hist, air,
                   ref, swept_vars, level_vars>>

Next ==
    \/ BeginFixed
    \/ ApplyGravity
    \/ ResolveCollisions
    \/ UpdateGroundedState
    \/ ApplySlopePhysics
    \/ BeginUpdate
    \/ ProcessInput
    \/ UpdateWallClingState
    \/ ApplyHorizontalMovement
    \/ ApplyWallClimbMovement
    \/ ApplyJump
    \/ DetectSwingPoints
    \/ AttachToSwing
    \/ UpdateSwingPhysics
    \/ ReleaseSwing
    \/ EndUpdate

Spec == Init /\ [][Next]_vars

-----------------------------------------------------------------------------
(* The swept test on its own: one call with arguments drawn from a grid *)

MaxCoord == 2        \* rectangle corners lie in -MaxCoord .. MaxCoord
MaxMove == 4         \* displacement components lie in -MaxMove .. MaxMove

Coords == (-MaxCoord) .. MaxCoord
Sizes == {1, 2}      \* widths and heights
Moves == (-MaxMove) .. MaxMove

SweptQueries ==
    { [pos |-> ZERO,
       collider |-> Collider(R(cw), R(ch)),
       geometry |-> LevelGeometry(R(gx), R(gy), R(gw), R(gh)),
       movement |-> Vec2(R(mx), R(my))] :
         cw \in Sizes, ch \in Sizes,
         gx \in Coords, gy \in Coords, gw \in Sizes, gh \in Sizes,
         mx \in Moves, my \in Moves }

SweptInit ==
    /\ pc = "sweep"
    /\ q \in SweptQueries
    /\ res = None
    /\ geometry_query = << >>
    /\ swing_points = << >>
    /\ world = NoWorld
    /\ player = Player(ZERO, ZERO, {}, ZERO, NoSwing)
    /\ keys = DefaultIntent
    /\ ppc = 0
    /\ spc = 0
    /\ detect_local = NoPoint
    /\ attach_local = NoPoint
    /\ cmds = NoCmds
    /\ ticks = 0
    /\ hist = [done |-> FALSE, p0 |-> player, p1 |-> player, hit |-> None]
    /\ air = NoAir
    /\ ref = NoRef

Sweep ==
    /\ pc = "sweep"
    /\ pc' = "swept"
    /\ res' = swept_aabb_collision(q.pos, q.collider, q.geometry, q.movement)
    /\ UNCHANGED <<q, player, level_vars, update_vars, ticks, hist, air>>

SweptNext == Sweep

SweptSpec == SweptInit /\ [][SweptNext]_vars

-----------------------------------------------------------------------------
(* What "contact along the path" means, stated from the geometry alone:   *)
(* the box displaced by the fraction k/den of the movement, compared with *)
(* the rectangle.  The times at which an edge of the box meets an edge of *)
(* the rectangle are integer distances over a movement component, so      *)
(* sampling [0, 1] in steps of 1 / (2 * |mx| * |my|) meets every interval *)
(* of contact and every interval of overlap (at an end or its middle).    *)

SampleDen(movement) ==
    2 * (IF movement.x.n = 0 THEN 1 ELSE Abs(movement.x.n))
      * (IF movement.y.n = 0 THEN 1 ELSE Abs(movement.y.n))

Shifted(pos, movement, k, den) ==
    Vec2(RAdd(pos.x, RMul(movement.x, Norm(k, den))),
         RAdd(pos.y, RMul(movement.y, Norm(k, den))))

\* the closed boxes share at least a point
Touching(pos, collider, geometry) ==
    /\ RLe(entity_left(pos, collider), geo_right(geometry))
    /\ RLe(geo_left(geometry), entity_right(pos, collider))
    /\ RLe(entity_top(pos, collider), geo_bottom(geometry))
    /\ RLe(geo_top(geometry), entity_bottom(pos, collider))

\* the boxes share interior points
Overlapping(pos, collider, geometry) ==
    /\ RLt(entity_left(pos, collider), geo_right(geometry))
    /\ RLt(geo_left(geometry), entity_right(pos, collider))
    /\ RLt(entity_top(pos, collider), geo_bottom(geometry))
    /\ RLt(geo_top(geometry), entity_bottom(pos, collider))

TouchesOnPath(pos, collider, geometry, movement) ==
    LET den == SampleDen(movement)
    IN  \E k \in 0 .. den :
            Touching(Shifted(pos, movement, k, den), collider, geometry)

OverlapsOnPath(pos, collider, geometry, movement) ==
    LET den == SampleDen(movement)
    IN  \E k \in 0 .. den :
            Overlapping(Shifted(pos, movement, k, den), collider, geometry)

\* The path brings the box into contact: it starts clear of the rectangle
\* and touches it on the way, or it starts without overlap and overlaps it
\* on the way.  (A box that starts flush against the rectangle and only
\* slides along it or moves away is not brought into contact.)
BroughtIntoContact(pos, collider, geometry, movement) ==
    /\ ~Overlapping(pos, collider, geometry)
    /\ \/ OverlapsOnPath(pos, collider, geometry, movement)
       \/ /\ ~Touching(pos, collider, geometry)
          /\ TouchesOnPath(pos, collider, geometry, movement)

\* C1 (no tunneling): a box that starts without overlapping the rectangle
\* and whose straight path over the displacement brings it into contact
\* with the rectangle always gets a collision from swept_aabb_collision,
\* however long the displacement and however thin the rectangle.
C1_NoTunneling ==
    (pc = "swept" /\ BroughtIntoContact(q.pos, q.collider, q.geometry, q.movement))
        => res.hit

\* the box starts clear of the rectangle, ends clear of it on the far side,
\* overlaps it on the way (the rectangle lies inside the path), and the
\* call reported the collision
C1_Witness ==
    /\ pc = "swept"
    /\ res.hit
    /\ ~Touching(q.pos, q.collider, q.geometry)
    /\ ~Touching(Shifted(q.pos, q.movement, 1, 1), q.collider, q.geometry)
    /\ OverlapsOnPath(q.pos, q.collider, q.geometry, q.movement)

\* C2: swept_aabb_collision reports a collision only if the box, swept
\* along the displacement, touches the rectangle somewhere within the
\* step; also for displacements with a zero x or y component.
C2_CollisionOnlyOnContact ==
    (pc = "swept" /\ res.hit)
        => TouchesOnPath(q.pos, q.collider, q.geometry, q.movement)

\* the per-axis entry time as the contract states it
AxisEntryTime(m, ent_lo, ent_hi, g_lo, g_hi) ==
    IF m = R(0) THEN NEG_INFINITY
    ELSE IF RLt(R(0), m) THEN RDiv(RSub(g_lo, ent_hi), m)
    ELSE RDiv(RSub(g_hi, ent_lo), m)

Sign(a) == IF a.n > 0 THEN 1 ELSE IF a.n < 0 THEN -1 ELSE 0

Cardinals == { Vec2(R(-1), R(0)), Vec2(R(1), R(0)), Vec2(R(0), R(-1)), Vec2(R(0), R(1)) }

\* C5: a reported collision has its time of impact in [0, 1] and a cardinal
\* unit normal, on the axis whose entry time is the later one and pointing
\* against the direction of travel on that axis.
C5_TimeAndNormal ==
    (pc = "swept" /\ res.hit) =>
        LET etx == AxisEntryTime(q.movement.x,
                       entity_left(q.pos, q.collider), entity_right(q.pos, q.collider),
                       geo_left(q.geometry), geo_right(q.geometry))
            ety == AxisEntryTime(q.movement.y,
                       entity_top(q.pos, q.collider), entity_bottom(q.pos, q.collider),
                       geo_top(q.geometry), geo_bottom(q.geometry))
        IN  /\ RLe(R(0), res.time) /\ RLe(res.time, R(1))
            /\ res.normal \in Cardinals
            /\ res.normal.x # R(0) =>
                  /\ RLe(ety, etx)
                  /\ Sign(res.normal.x) = -Sign(q.movement.x)
            /\ res.normal.y # R(0) =>
                  /\ RLe(etx, ety)
                  /\ Sign(res.normal.y) = -Sign(q.movement.y)

\* a diagonal move that meets the rectangle's left side strictly inside the
\* step, the x axis entering strictly later than the y axis
C5_Witness ==
    /\ pc = "swept"
    /\ res.hit
    /\ res.normal = Vec2(R(-1), R(0))
    /\ RLt(R(0), res.time) /\ RLt(res.time, R(1))
    /\ q.movement.y # R(0)

-----------------------------------------------------------------------------
(* Claims about the physics step.  hist.p0 is the entity before the       *)
(* gravity stage, hist.p1 before resolve_collisions.                      *)

Dot(a, b) == RAdd(RMul(a.x, b.x), RMul(a.y, b.y))
Perp(n) == Vec2(RNeg(n.y), n.x)
Scale(v, t) == Vec2(RMul(v.x, t), RMul(v.y, t))
VAdd(a, b) == Vec2(RAdd(a.x, b.x), RAdd(a.y, b.y))

\* the rectangles that report a collision for the step of p, by index
Reporting(p, geos) ==
    { i \in 1..Len(geos) :
        swept_aabb_collision(p.pos, p.collider, geos[i], step_movement(p)).hit }
TimeOfImpact(p, geos, i) ==
    swept_aabb_collision(p.pos, p.collider, geos[i], step_movement(p)).time
\* the first rectangle in iteration order among those of minimum time
EarliestReporting(p, geos) ==
    CHOOSE i \in Reporting(p, geos) :
        /\ \A j \in Reporting(p, geos) :
              RLe(TimeOfImpact(p, geos, i), TimeOfImpact(p, geos, j))
        /\ \A j \in Reporting(p, geos) :
              TimeOfImpact(p, geos, j) = TimeOfImpact(p, geos, i) => i <= j

\* position and velocity the resolution policy asks for
ResolvedAsStated(p, geos) ==
    IF Reporting(p, geos) = {}
    THEN [pos |-> VAdd(p.pos, step_movement(p)), vel |-> p.vel]
    ELSE LET i == EarliestReporting(p, geos)
             c == swept_aabb_collision(p.pos, p.collider, geos[i], step_movement(p))
         IN  [pos |-> VAdd(p.pos, Scale(step_movement(p), c.time)),
              vel |-> VAdd(p.vel, Scale(c.normal, RNeg(Dot(p.vel, c.normal))))]

\* C3: resolve_collisions moves the entity by displacement x t, t the
\* minimum time of impact over the rectangles that report a collision
\* (the full displacement when none does), and projects the velocity with
\* the normal of that rectangle, the first in iteration order on a tie.
C3_ResolveUsesEarliest ==
    pc = "classify" =>
        /\ player.pos = ResolvedAsStated(hist.p1, geometry_query).pos
        /\ player.vel = ResolvedAsStated(hist.p1, geometry_query).vel

\* C4: after resolve_collisions handled a collision with normal n, the
\* velocity has no component along n and its component perpendicular to n
\* is the one it had before.
C4_ProjectionRemovesNormalComponent ==
    (pc = "classify" /\ hist.hit.hit) =>
        /\ Dot(player.vel, hist.hit.normal) = R(0)
        /\ Dot(player.vel, Perp(hist.hit.normal)) = Dot(hist.p1.vel, Perp(hist.hit.normal))

\* a diagonal move stopped by a wall: the horizontal velocity is removed,
\* the vertical one stays
C4_Witness ==
    /\ pc = "classify"
    /\ hist.hit.hit
    /\ hist.hit.normal = Vec2(R(-1), R(0))
    /\ hist.p1.vel.x # R(0)
    /\ hist.p1.vel.y # R(0)
    /\ player.vel = Vec2(R(0), hist.p1.vel.y)

\* the rectangles under the entity: they share a stretch of x with it and
\* their top is at or below its bottom edge
Beneath(p, geos) ==
    { i \in 1..Len(geos) :
        /\ RLt(geo_left(geos[i]), entity_right(p.pos, p.collider))
        /\ RLt(entity_left(p.pos, p.collider), geo_right(geos[i]))
        /\ RLe(entity_bottom(p.pos, p.collider), geo_top(geos[i])) }
\* the nearest of them
GroundBeneath(p, geos) ==
    CHOOSE i \in Beneath(p, geos) :
        \A j \in Beneath(p, geos) : RLe(geo_top(geos[i]), geo_top(geos[j]))
\* an airborne entity falls straight down and the ground beneath it is
\* reached within the displacement of the step
LandingStep ==
    /\ hist.done
    /\ ~hist.p0.grounded.is_grounded
    /\ hist.p1.vel.x = R(0)
    /\ RLt(R(0), hist.p1.vel.y)
    /\ Beneath(hist.p1, geometry_query) # {}
    /\ RLe(RSub(geo_top(geometry_query[GroundBeneath(hist.p1, geometry_query)]),
                entity_bottom(hist.p1.pos, hist.p1.collider)),
           step_movement(hist.p1).y)

\* C6: at the end of a physics step in which an airborne entity moving
\* down reaches the flat ground beneath it at a fraction <= 1 of the
\* displacement, its bottom edge is at the ground top, its vertical
\* velocity is 0 and is_grounded is true.
C6_Landing ==
    (pc = "fixed" /\ LandingStep) =>
        /\ entity_bottom(player.pos, player.collider)
              = geo_top(geometry_query[GroundBeneath(hist.p1, geometry_query)])
        /\ player.vel.y = R(0)
        /\ player.grounded.is_grounded

\* C7: the position and velocity a frame yields do not depend on the order
\* in which the player chain and the swing chain, unordered with respect
\* to each other, are run: when both have finished they are what running
\* the player chain first yields.
C7_OrderIndependent ==
    (pc = "update" /\ ppc = 5 /\ spc = 4 /\ ref.valid) =>
        /\ player.pos = ref.pos
        /\ player.vel = ref.vel

GroundedValues ==
    { GroundedState(FALSE, ZERO), GroundedState(TRUE, Vec2(R(0), R(-1))),
      GroundedState(TRUE, Vec2(R(1), R(0))), GroundedState(FALSE, Vec2(R(0), R(-1))) }

\* C8: ground_normal is the zero vector iff is_grounded is false, in the
\* initial state and in every state the classifier produces; and what the
\* classifier produces is the same whatever GroundedState it found.
C8_GroundNormalZeroIffAirborne ==
    /\ (player.grounded.ground_normal = ZERO) <=> ~player.grounded.is_grounded
    /\ pc = "slope" =>
          \A prev \in GroundedValues :
              update_grounded_state(player.pos, player.collider, prev, geometry_query)
                  = player.grounded

\* the classifier finds a grounded entity airborne: it has jumped off
\* the ground since the last step
C8_Witness ==
    /\ pc = "slope"
    /\ hist.p0.grounded.is_grounded
    /\ ~player.grounded.is_grounded
    /\ player.grounded.ground_normal = ZERO

C10_NoGravityWhileClinging ==
    (pc = "resolve" /\ hist.p0.wall.is_clinging) =>
        player.vel.y = hist.p0.vel.y

-----------------------------------------------------------------------------
(* The player controller's systems on their own: each is applied once to  *)
(* an entity whose components are drawn from the values below, its intent *)
(* being the one process_input_system has written.  hist.p0 is the entity *)
(* before the system ran.                                                 *)

Intents ==
    { PlayerIntent(l, r, j, jr) : l \in BOOLEAN, r \in BOOLEAN, j \in BOOLEAN, jr \in BOOLEAN }

\* no geometry; a wall whose right side touches the entity's left side and
\* which reaches 100 pixels above and below the entity's top
ControllerLevels ==
    { << >>, << LevelGeometry(R(-10), R(-100), R(10), R(200)) >> }

ControllerVelocities ==
    { ZERO, Vec2(R(100), R(-300)), Vec2(R(-50), R(120)) }

ControllerWallNormals ==
    { ZERO, Vec2(R(1), R(0)), Vec2(R(-1), R(0)), Vec2(R(0), R(1)) }

ControllerPlayers ==
    { [pos |-> ZERO, vel |-> v, collider |-> Collider(R(32), R(32)),
       grounded |-> g, wall |-> WallClimbState(c, n),
       abilities |-> a, swing |-> NoSwing, intent |-> i] :
        v \in ControllerVelocities,
        g \in { GroundedState(FALSE, ZERO), GroundedState(TRUE, Vec2(R(0), R(-1))) },
        c \in BOOLEAN,
        n \in ControllerWallNormals,
        a \in SUBSET {"HighJump", "WallClimb"},
        i \in Intents }

ControllerInit ==
    /\ pc = "controller"
    /\ player \in ControllerPlayers
    /\ geometry_query \in ControllerLevels
    /\ keys = player.intent
    /\ q = NoQuery
    /\ res = None
    /\ swing_points = << >>
    /\ world = NoWorld
    /\ ppc = 0
    /\ spc = 0
    /\ detect_local = NoPoint
    /\ attach_local = NoPoint
    /\ cmds = NoCmds
    /\ ticks = 0
    /\ hist = [done |-> FALSE, p0 |-> player, p1 |-> player, hit |-> None]
    /\ air = NoAir
    /\ ref = NoRef

controller_unchanged ==
    <<q, res, geometry_query, swing_points, world, keys, ppc, spc, detect_local,
      attach_local, cmds, ticks, hist, air, ref>>

RunUpdateWallClingState ==
    /\ pc = "controller"
    /\ pc' = "cling"
    /\ player' = update_wall_cling_state(player, geometry_query)
    /\ UNCHANGED controller_unchanged

RunApplyHorizontalMovement ==
    /\ pc = "controller"
    /\ pc' = "horizontal"
    /\ player' = apply_horizontal_movement_system(player)
    /\ UNCHANGED controller_unchanged

RunApplyWallClimbMovement ==
    /\ pc = "controller"
    /\ pc' = "climb"
    /\ player' = apply_wall_climb_movement_system(player)
    /\ UNCHANGED controller_unchanged

RunApplyJump ==
    /\ pc = "controller"
    /\ pc' = "jump"
    /\ player' = apply_jump_system(player)
    /\ UNCHANGED controller_unchanged

\* the whole chain of PlayerPlugin, process_input_system first
RunPlayerChain ==
    /\ pc = "controller"
    /\ pc' = "chain"
    /\ player' = player_chain(player, keys, geometry_query)
    /\ UNCHANGED controller_unchanged

ControllerNext ==
    \/ RunUpdateWallClingState
    \/ RunApplyHorizontalMovement
    \/ RunApplyWallClimbMovement
    \/ RunApplyJump
    \/ RunPlayerChain

ControllerSpec == ControllerInit /\ [][ControllerNext]_vars

ClingAllowed(p) ==
    /\ "WallClimb" \in p.abilities
    /\ p.wall.wall_normal # ZERO
    /\ ~p.grounded.is_grounded

\* C11: after update_wall_cling_state, and at the end of the controller's
\* chain, is_clinging is true only if the wall-climb ability is present,
\* wall_normal is nonzero and the entity is airborne, whatever is_clinging
\* was before.
C11_ClingOnlyIfAllowed ==
    (pc \in {"cling", "chain"} /\ player.wall.is_clinging) => ClingAllowed(player)

\* an entity ends the controller's chain clinging
C11_Witness ==
    /\ pc = "chain"
    /\ player.wall.is_clinging
    /\ ClingAllowed(player)

PressingTowardWall(p) ==
    \/ RLt(R(0), p.wall.wall_normal.x) /\ p.intent.move_left
    \/ RLt(p.wall.wall_normal.x, R(0)) /\ p.intent.move_right

\* C12: for an entity that is not clinging, update_wall_cling_state sets
\* is_clinging to true exactly when the wall-climb ability is present,
\* wall_normal is nonzero, the entity is not grounded and the player
\* presses toward the wall.
C12_ClingEntry ==
    (pc = "cling" /\ ~hist.p0.wall.is_clinging) =>
        (player.wall.is_clinging <=> (ClingAllowed(hist.p0) /\ PressingTowardWall(hist.p0)))

\* the entity enters the cling state, pressing right toward a wall whose
\* normal points left
C12_Witness ==
    /\ pc = "cling"
    /\ ~hist.p0.wall.is_clinging
    /\ player.wall.is_clinging
    /\ hist.p0.wall.wall_normal = Vec2(R(-1), R(0))
    /\ hist.p0.intent.move_right

\* a rectangle lies against the side of the entity the wall normal points
\* away from, and covers that side from 10 pixels above the entity's top
\* down to its bottom
WallContinuesAbove(p, geos) ==
    \E i \in 1..Len(geos) :
        /\ \/ /\ RLt(R(0), p.wall.wall_normal.x)
              /\ geo_right(geos[i]) = entity_left(p.pos, p.collider)
           \/ /\ RLt(p.wall.wall_normal.x, R(0))
              /\ geo_left(geos[i]) = entity_right(p.pos, p.collider)
        /\ RLe(geo_top(geos[i]), RSub(entity_top(p.pos, p.collider), R(10)))
        /\ RLe(entity_bottom(p.pos, p.collider), geo_bottom(geos[i]))

\* C13: an entity that is clinging when update_wall_cling_state runs, has
\* the wall-climb ability, a detected wall, is airborne, presses toward the
\* wall and has the wall continuing above it, is still clinging afterwards.
C13_ClingPersists ==
    (/\ pc = "cling"
     /\ hist.p0.wall.is_clinging
     /\ ClingAllowed(hist.p0)
     /\ PressingTowardWall(hist.p0)
     /\ WallContinuesAbove(hist.p0, geometry_query)) => player.wall.is_clinging

WallJumps(p) == p.wall.is_clinging /\ p.intent.jump_pressed

\* C15: when the entity is clinging and jump is pressed, apply_jump_system
\* sets the velocity to (wall_normal.x times the wall-jump horizontal
\* magnitude, the upward wall-jump magnitude) and clears is_clinging, with
\* neither the ground jump nor the release cut on top; when the entity is
\* not clinging, horizontal velocity and cling state are left alone.
C15_WallJump ==
    pc = "jump" =>
        IF WallJumps(hist.p0)
        THEN /\ player.vel.x = RMul(hist.p0.wall.wall_normal.x, R(250))
             /\ player.vel.y = R(-450)
             /\ ~player.wall.is_clinging
             /\ RLt(R(0), hist.p0.wall.wall_normal.x) => RLt(R(0), player.vel.x)
             /\ RLt(hist.p0.wall.wall_normal.x, R(0)) => RLt(player.vel.x, R(0))
        ELSE /\ player.vel.x = hist.p0.vel.x
             /\ player.wall = hist.p0.wall

\* a wall jump off a wall whose normal points right, by a grounded entity
\* in a step in which jump was also just released
C15_Witness ==
    /\ pc = "jump"
    /\ WallJumps(hist.p0)
    /\ hist.p0.wall.wall_normal = Vec2(R(1), R(0))
    /\ hist.p0.grounded.is_grounded
    /\ hist.p0.intent.jump_just_released
    /\ player.vel = Vec2(R(250), R(-450))

\* C16: when is_clinging is true apply_wall_climb_movement_system sets the
\* horizontal velocity to 0 and the vertical velocity to the upward climb
\* speed if move_left or move_right is held, to 0 otherwise; when
\* is_clinging is false it leaves the velocity as it is.
C16_WallClimbMovement ==
    pc = "climb" =>
        IF hist.p0.wall.is_clinging
        THEN /\ player.vel.x = R(0)
             /\ player.vel.y = IF hist.p0.intent.move_left \/ hist.p0.intent.move_right
                               THEN R(-150) ELSE R(0)
        ELSE player.vel = hist.p0.vel

\* a clinging entity with a horizontal velocity starts to climb
C16_Witness ==
    /\ pc = "climb"
    /\ hist.p0.wall.is_clinging
    /\ hist.p0.vel.x # R(0)
    /\ hist.p0.intent.move_right
    /\ player.vel = Vec2(R(0), R(-150))

Half(a) == RMul(a, Norm(1, 2))
GroundJumps(p) == p.grounded.is_grounded /\ p.intent.jump_pressed
JumpValue(p) == IF "HighJump" \in p.abilities THEN R(-600) ELSE R(-400)

\* C17 as stated: outside a wall jump, a grounded entity with jump held
\* ends the step with the high-jump vertical velocity if HighJump is in its
\* ability set and with the base one otherwise, the high-jump magnitude
\* being strictly the greater; an airborne entity holding jump keeps its
\* vertical velocity, whatever its abilities.
C17_AsStated ==
    /\ RLt(R(HIGH_JUMP_VELOCITY), R(BASE_JUMP_VELOCITY))
    /\ RLt(R(BASE_JUMP_VELOCITY), R(0))
    /\ (pc = "jump" /\ ~WallJumps(hist.p0)) =>
          /\ GroundJumps(hist.p0) => player.vel.y = JumpValue(hist.p0)
          /\ (~hist.p0.grounded.is_grounded /\ hist.p0.intent.jump_pressed)
                => player.vel.y = hist.p0.vel.y

\* C17, amended: outside a wall jump, a grounded entity with jump held gets the
\* high-jump vertical velocity if HighJump is in its ability set and the
\* base one otherwise (halved by the release cut when jump was also just
\* released in the step), the high-jump magnitude being strictly the
\* greater; an airborne entity holding jump keeps its vertical velocity,
\* whatever its abilities.
C17_JumpAbilityGating ==
    /\ RLt(R(HIGH_JUMP_VELOCITY), R(BASE_JUMP_VELOCITY))
    /\ RLt(R(BASE_JUMP_VELOCITY), R(0))
    /\ (pc = "jump" /\ ~WallJumps(hist.p0)) =>
          /\ GroundJumps(hist.p0) =>
                player.vel.y = IF hist.p0.intent.jump_just_released
                               THEN Half(JumpValue(hist.p0)) ELSE JumpValue(hist.p0)
          /\ (/\ ~hist.p0.grounded.is_grounded
              /\ hist.p0.intent.jump_pressed
              /\ ~hist.p0.intent.jump_just_released) => player.vel.y = hist.p0.vel.y

\* a grounded entity with HighJump jumps
C17_Witness ==
    /\ pc = "jump"
    /\ ~WallJumps(hist.p0)
    /\ GroundJumps(hist.p0)
    /\ "HighJump" \in hist.p0.abilities
    /\ ~hist.p0.intent.jump_just_released
    /\ player.vel.y = R(-600)

\* C18 as stated: in a step where jump was just released the entity's
\* vertical velocity is halved if it is negative and unchanged if it is
\* zero or positive, grounded or not; without a release it is not scaled
\* (it is unchanged, or set by a jump).
C18_AsStated ==
    pc = "jump" =>
        /\ (hist.p0.intent.jump_just_released /\ RLt(hist.p0.vel.y, R(0)))
              => RMul(player.vel.y, R(2)) = hist.p0.vel.y
        /\ (hist.p0.intent.jump_just_released /\ RLe(R(0), hist.p0.vel.y))
              => player.vel.y = hist.p0.vel.y
        /\ ~hist.p0.intent.jump_just_released =>
              \/ player.vel.y = hist.p0.vel.y
              \/ GroundJumps(hist.p0) /\ player.vel.y = JumpValue(hist.p0)
              \/ WallJumps(hist.p0) /\ player.vel.y = R(-450)

\* C18, amended: outside a wall jump, in a step where jump was just released the
\* vertical velocity the release check finds (the entity's, or the one the
\* ground jump of the same step has set) is halved if it is negative and
\* kept if it is zero or positive, grounded or not; without a release it is
\* not scaled.
C18_VariableJumpHeight ==
    (pc = "jump" /\ ~WallJumps(hist.p0)) =>
        LET found == IF GroundJumps(hist.p0) THEN JumpValue(hist.p0) ELSE hist.p0.vel.y
        IN  /\ (hist.p0.intent.jump_just_released /\ RLt(found, R(0)))
                  => RMul(player.vel.y, R(2)) = found
            /\ (hist.p0.intent.jump_just_released /\ RLe(R(0), found))
                  => player.vel.y = found
            /\ ~hist.p0.intent.jump_just_released => player.vel.y = found

\* an ascending airborne entity releases jump
C18_Witness ==
    /\ pc = "jump"
    /\ ~hist.p0.grounded.is_grounded
    /\ hist.p0.intent.jump_just_released
    /\ ~hist.p0.intent.jump_pressed
    /\ hist.p0.vel.y = R(-300)
    /\ player.vel.y = R(-150)

\* C19: apply_horizontal_movement_system sets the horizontal velocity of a
\* grounded entity to MOVE_SPEED if only move_right is held, to -MOVE_SPEED
\* if only move_left is held and to 0 otherwise; it leaves the horizontal
\* velocity of an airborne entity, and every vertical velocity, as it is.
C19_HorizontalMovement ==
    pc = "horizontal" =>
        /\ player.vel.y = hist.p0.vel.y
        /\ hist.p0.grounded.is_grounded =>
              player.vel.x =
                  IF hist.p0.intent.move_right /\ ~hist.p0.intent.move_left THEN R(200)
                  ELSE IF hist.p0.intent.move_left /\ ~hist.p0.intent.move_right THEN R(-200)
                  ELSE R(0)
        /\ ~hist.p0.grounded.is_grounded => player.vel.x = hist.p0.vel.x

\* a grounded entity moving right with both keys held is stopped
C19_Witness ==
    /\ pc = "horizontal"
    /\ hist.p0.grounded.is_grounded
    /\ hist.p0.intent.move_left /\ hist.p0.intent.move_right
    /\ hist.p0.vel.x = R(100)
    /\ player.vel.x = R(0)

-----------------------------------------------------------------------------
(* Wall detection.  player.rs reads WallClimbState.wall_normal and its    *)
(* tests import WALL_CHECK_DISTANCE from the physics plugin, but the      *)
(* system that writes wall_normal is not in the source at hand.  It is    *)
(* modelled from the specification: a short horizontal sweep to each      *)
(* side with swept_aabb_collision; a collision with a predominantly       *)
(* horizontal normal marks the wall and its side, as update_grounded_state *)
(* does for the ground.                                                    *)

WALL_CHECK_DISTANCE == 2

\* the sweep by WALL_CHECK_DISTANCE toward side (-1 left, 1 right), from
\* rectangle i on
RECURSIVE find_wall(_, _, _, _, _)
find_wall(position, collider, geos, side, i) ==
    IF i > Len(geos) THEN ZERO
    ELSE LET c == swept_aabb_collision(position, collider, geos[i],
                                       Vec2(R(side * WALL_CHECK_DISTANCE), R(0)))
         IN  IF c.hit /\ RLt(c.time, R(1)) /\ RLt(Norm(1, 2), RAbs(c.normal.x))
             THEN c.normal
             ELSE find_wall(position, collider, geos, side, i + 1)

\* the wall normal the classifier writes: the left side is looked at first
update_wall_state(position, collider, geos) ==
    IF find_wall(position, collider, geos, -1, 1) # ZERO
    THEN find_wall(position, collider, geos, -1, 1)
    ELSE find_wall(position, collider, geos, 1, 1)

\* an entity, the wall normal it carries and one rectangle
WallQueries ==
    { [pos |-> ZERO, collider |-> Collider(R(cw), R(ch)),
       geometry |-> LevelGeometry(R(gx), R(gy), R(gw), R(gh)), movement |-> ZERO] :
        cw \in Sizes, ch \in Sizes, gx \in Coords, gy \in Coords,
        gw \in Sizes, gh \in Sizes }

WallInit ==
    /\ pc = "wall"
    /\ q \in WallQueries
    /\ res = None
    /\ geometry_query = << q.geometry >>
    /\ swing_points = << >>
    /\ world = NoWorld
    /\ \E n \in { ZERO, Vec2(R(1), R(0)), Vec2(R(-1), R(0)) } :
          player = [Player(q.pos, ZERO, {"WallClimb"}, n, NoSwing)
                       EXCEPT !.collider = q.collider]
    /\ keys = DefaultIntent
    /\ ppc = 0
    /\ spc = 0
    /\ detect_local = NoPoint
    /\ attach_local = NoPoint
    /\ cmds = NoCmds
    /\ ticks = 0
    /\ hist = [done |-> FALSE, p0 |-> player, p1 |-> player, hit |-> None]
    /\ air = NoAir
    /\ ref = NoRef

UpdateWallState ==
    /\ pc = "wall"
    /\ pc' = "walled"
    /\ player' = [player EXCEPT !.wall.wall_normal =
                     update_wall_state(player.pos, player.collider, geometry_query)]
    /\ UNCHANGED controller_unchanged

WallNext == UpdateWallState

WallSpec == WallInit /\ [][WallNext]_vars

\* the rectangle shares a stretch of y with the entity
BesideEntity(p, g) ==
    /\ RLt(geo_top(g), entity_bottom(p.pos, p.collider))
    /\ RLt(entity_top(p.pos, p.collider), geo_bottom(g))
\* ... and its near side is less than WALL_CHECK_DISTANCE from the entity's
WallOnLeft(p, g) ==
    /\ BesideEntity(p, g)
    /\ RLe(geo_right(g), entity_left(p.pos, p.collider))
    /\ RLt(RSub(entity_left(p.pos, p.collider), geo_right(g)), R(WALL_CHECK_DISTANCE))
WallOnRight(p, g) ==
    /\ BesideEntity(p, g)
    /\ RLe(entity_right(p.pos, p.collider), geo_left(g))
    /\ RLt(RSub(geo_left(g), entity_right(p.pos, p.collider)), R(WALL_CHECK_DISTANCE))

\* C14: the wall normal the classifier writes is the unit vector pointing
\* away from a wall that lies within the short horizontal sweep of the
\* entity, and the zero vector when no wall is beside the entity, whatever
\* the wall normal was before.
C14_WallDetection ==
    pc = "walled" =>
        LET g == geometry_query[1]
        IN  /\ WallOnLeft(player, g) => player.wall.wall_normal = Vec2(R(1), R(0))
            /\ WallOnRight(player, g) => player.wall.wall_normal = Vec2(R(-1), R(0))
            /\ (~WallOnLeft(player, g) /\ ~WallOnRight(player, g))
                  => player.wall.wall_normal = ZERO


-----------------------------------------------------------------------------
(* Swing attachment, in the frame pipeline (Spec)                         *)

\* the swing points the entity p is within range of
PointsInRange(p) ==
    { i \in 1..Len(swing_points) :
        WideLe(distance2(p.pos, swing_points[i].position),
               WideSquare(swing_points[i].range)) }

\* the nearest of them: none is closer, and of those equally near the first
NearestInRange(p) ==
    CHOOSE i \in PointsInRange(p) :
        \A j \in PointsInRange(p) :
            LET di == distance2(p.pos, swing_points[i].position)
                dj == distance2(p.pos, swing_points[j].position)
            IN  WideLt(di, dj) \/ (~WideLt(dj, di) /\ i <= j)

\* the five conditions of attachment, on the entity as the attach system
\* reads it
AttachConditions(p) ==
    /\ ~p.swing.present
    /\ "Swing" \in p.abilities
    /\ ~p.grounded.is_grounded
    /\ PointsInRange(p) # {}
    /\ p.intent.jump_pressed

\* whether s is the SwingState the attachment is to create: anchored at
\* the nearest in-range point, with the distance to it as rope length (the
\* squares are compared) and no angular velocity
AttachedState(p, s) ==
    LET point == swing_points[NearestInRange(p)]
        d2 == distance2(p.pos, point.position)
        r2 == WideSquare(s.rope_length)
    IN  /\ s.present
        /\ s.anchor_point = point.position
        /\ RLe(R(0), s.rope_length)
        /\ ~WideLt(r2, d2) /\ ~WideLt(d2, r2)
        /\ s.angular_velocity = R(0)

\* C20: when attach_to_swing_system runs on an entity that is not swinging,
\* has the Swing ability, is airborne, is within range of a swing point and
\* has the attach input pressed, it queues a SwingState whose anchor is the
\* nearest in-range swing point, whose rope length is the distance to it and
\* whose angular velocity is 0, and it queues none if a condition fails; at
\* the end of the step the entity has the queued SwingState, and an entity
\* without one before has none unless one was queued.
C20_SwingAttachment ==
    [][ /\ (pc = "update" /\ spc = 1 /\ spc' = 2) =>
            IF AttachConditions(player)
            THEN AttachedState(player, cmds'.insert)
            ELSE ~cmds'.insert.present
        /\ (pc = "update" /\ pc' = "fixed") =>
            /\ cmds.insert.present => player'.swing = cmds.insert
            /\ (~cmds.insert.present /\ ~player.swing.present)
                  => ~player'.swing.present ]_vars


-----------------------------------------------------------------------------
(* One Update of the player chain and the swing chain, in every order     *)
(* the two chains allow, on entities of every swing situation: swinging   *)
(* or not, at rest or turning, beside a swing point or on it.             *)

\* the entity hangs 50 pixels to the right of its anchor, at rest or
\* turning upward at one radian per second
SwingStates ==
    { NoSwing,
      SwingState(Vec2(R(-50), R(0)), R(50), R(0)),
      SwingState(Vec2(R(-50), R(0)), R(50), R(-1)) }

\* no swing point; one 50 pixels to the left of the origin; that one and
\* one at the origin
SwingLevels ==
    { << >>,
      << SwingPoint(Vec2(R(-50), R(0)), R(100)) >>,
      << SwingPoint(Vec2(R(-50), R(0)), R(100)), SwingPoint(ZERO, R(100)) >> }

SwingPlayers ==
    { [Player(pos, vel, abilities, ZERO, swing) EXCEPT !.grounded.is_grounded = g] :
        pos \in { ZERO, Vec2(R(-50), R(0)) },
        vel \in { ZERO, Vec2(R(0), R(-100)) },
        abilities \in { {}, {"Swing"} },
        swing \in SwingStates,
        g \in BOOLEAN }

SwingInit ==
    /\ pc = "update"
    /\ q = NoQuery
    /\ res = None
    /\ geometry_query = << >>
    /\ swing_points \in SwingLevels
    /\ world = NoWorld
    /\ player \in SwingPlayers
    /\ player.swing.present => player.pos = ZERO
    /\ keys \in Intents
    /\ ppc = 0
    /\ spc = 0
    /\ detect_local = NoPoint
    /\ attach_local = NoPoint
    /\ cmds = NoCmds
    /\ ticks = 0
    /\ hist = [done |-> FALSE, p0 |-> player, p1 |-> player, hit |-> None]
    /\ air = NoAir
    /\ ref = NoRef

\* update_swing_physics_system; ref keeps what the integration wrote for a
\* swinging entity
IntegrateSwing ==
    /\ pc = "update"
    /\ spc = 2
    /\ player.swing.present => swing_is_small(player, frame_delta_seconds)
    /\ spc' = 3
    /\ player' = update_swing_physics_system(player, frame_delta_seconds)
    /\ ref' = [valid |-> player.swing.present, pos |-> player'.pos, vel |-> player'.vel]
    /\ air' = IF player.swing.present THEN NoAir ELSE air
    /\ UNCHANGED <<pc, ppc, keys, detect_local, attach_local, cmds, ticks, hist,
                   swept_vars, level_vars>>

SwingNext ==
    \/ ProcessInput
    \/ UpdateWallClingState
    \/ ApplyHorizontalMovement
    \/ ApplyWallClimbMovement
    \/ ApplyJump
    \/ DetectSwingPoints
    \/ AttachToSwing
    \/ IntegrateSwing
    \/ ReleaseSwing
    \/ EndUpdate

SwingSpec == SwingInit /\ [][SwingNext]_vars


\* whether the entity p is at the position of a swing point
OnSwingPoint(p) ==
    \E i \in 1..Len(swing_points) : swing_points[i].position = p.pos

-----------------------------------------------------------------------------
(* Swinging and the fixed step, in the frame pipeline (Spec)              *)

\* C22: in a fixed step that a swinging entity enters, no physics stage
\* changes the entity: after gravity, after collision resolution, after the
\* grounded classification and after the slope stage its position, velocity,
\* grounded state and wall state are the ones it entered the step with,
\* which the swing integration wrote.
C22_PhysicsSkipsSwinging ==
    ( /\ pc \in {"resolve", "classify", "slope"} \/ (pc = "fixed" /\ hist.done)
      /\ hist.p0.swing.present )
    => /\ player.pos = hist.p0.pos
       /\ player.vel = hist.p0.vel
       /\ player.grounded = hist.p0.grounded
       /\ player.wall = hist.p0.wall


-----------------------------------------------------------------------------
(* Release and the lifetime of a SwingState, in one Update (SwingSpec)    *)

\* C23: release_swing_system queues the removal of the SwingState exactly
\* when the entity is swinging and its intent says the attach input was
\* just released; at the end of the step a queued removal leaves the entity
\* without SwingState and with exactly the velocity the swing integration
\* of the step wrote, and without a queued removal a swinging entity keeps
\* its SwingState.
C23_SwingRelease ==
    [][ /\ (pc = "update" /\ spc = 3 /\ spc' = 4) =>
              cmds'.remove = (player.swing.present /\ player.intent.jump_just_released)
        /\ (pc = "update" /\ pc' = "fixed") =>
              /\ cmds.remove => /\ ~player'.swing.present
                                /\ ref.valid
                                /\ player'.vel = ref.vel
              /\ (~cmds.remove /\ player.swing.present) => player'.swing.present ]_vars


\* C24: while the entity that entered the step swinging still has its
\* SwingState, the anchor point and the rope length are the ones it entered
\* with, after the integration as before it, and no SwingState is queued
\* for insertion on an entity that is already swinging.
C24_RopeAndAnchorFixed ==
    hist.p0.swing.present =>
        /\ player.swing.present =>
              /\ player.swing.anchor_point = hist.p0.swing.anchor_point
              /\ player.swing.rope_length = hist.p0.swing.rope_length
        /\ ~cmds.insert.present

\* a swinging, airborne entity with the Swing ability and the attach input
\* pressed, in range of a swing point, has been through the attach system
\* and the integration, which moved it, and is still swinging when the step
\* has ended
C24_Witness ==
    /\ pc = "fixed"
    /\ hist.p0.swing.present
    /\ "Swing" \in hist.p0.abilities
    /\ ~hist.p0.grounded.is_grounded
    /\ PointsInRange(hist.p0) # {}
    /\ keys.jump_pressed
    /\ player.swing.present
    /\ player.pos # hist.p0.pos


-----------------------------------------------------------------------------
(* The order of the stages, in the frame pipeline (Spec)                  *)

PhysicsStages == {"gravity", "resolve", "classify", "slope"}

\* C25: a fixed step goes through gravity, collision resolution, grounded
\* classification and slope physics in that order, each stage once and
\* nothing in between, and an Update begins and ends between fixed steps
\* only; the grounded state is written by the classification alone, so the
\* gravity stage of a step reads what the classification of the step
\* before wrote.
C25_StageOrder ==
    [][ /\ pc' # pc =>
              <<pc, pc'>> \in { <<"fixed", "gravity">>, <<"gravity", "resolve">>,
                                <<"resolve", "classify">>, <<"classify", "slope">>,
                                <<"slope", "fixed">>,
                                <<"fixed", "update">>, <<"update", "fixed">> }
        /\ (pc \in PhysicsStages /\ vars' # vars) => pc' # pc
        /\ pc # "classify" => player'.grounded = player.grounded ]_vars

\* the gravity stage of a later step has read the grounded state that a
\* classification wrote (entities are spawned airborne) and has left the
\* vertical velocity alone
C25_Witness ==
    /\ pc = "resolve"
    /\ ticks >= 2
    /\ hist.p0.grounded.is_grounded
    /\ player.vel.y = hist.p0.vel.y


-----------------------------------------------------------------------------
(* Frames of the physics stages and of the level and ability systems:     *)
(* FixedUpdate as in the frame pipeline, and an Update made of the level  *)
(* chain (detect, process, gates) and the collection of power-ups, with   *)
(* no order between the two; the commands are applied when Update ends.   *)

\* the gates of the first level: none; one that needs HighJump; that one
\* and one for WallClimb elsewhere; two for the two abilities on one area,
\* in either order
StartGates ==
    { << >>,
      << AbilityGate(<<"start", 1>>, "HighJump", Area(R(150), R(-100), R(20), R(140)),
                     TRUE, FALSE) >>,
      << AbilityGate(<<"start", 1>>, "HighJump", Area(R(150), R(-100), R(20), R(140)),
                     TRUE, FALSE),
         AbilityGate(<<"start", 2>>, "WallClimb", Area(R(-90), R(-100), R(20), R(140)),
                     TRUE, FALSE) >>,
      << AbilityGate(<<"start", 1>>, "HighJump", Area(R(150), R(-100), R(20), R(140)),
                     TRUE, FALSE),
         AbilityGate(<<"start", 2>>, "WallClimb", Area(R(150), R(-100), R(20), R(140)),
                     TRUE, FALSE) >>,
      << AbilityGate(<<"start", 1>>, "WallClimb", Area(R(150), R(-100), R(20), R(140)),
                     TRUE, FALSE),
         AbilityGate(<<"start", 2>>, "HighJump", Area(R(150), R(-100), R(20), R(140)),
                     TRUE, FALSE) >> }

\* the first level: a floor 8 pixels under the player, a swing point, a
\* HighJump power-up 60 pixels to the left of the origin, a WallClimb
\* power-up near it, a Swing power-up whose box touches the box of a player
\* at the origin, and a trigger whose area the player standing at the
\* origin is in; the player starts at the origin or on the HighJump
\* power-up
LevelInit ==
    /\ pc = "fixed"
    /\ q = NoQuery
    /\ res = None
    /\ geometry_query = << LevelGeometry(R(-100), R(40), R(300), R(32)) >>
    /\ swing_points = << SwingPoint(Vec2(R(-50), R(-80)), R(100)) >>
    /\ \E to_level \in {"cave", "pit", "torn", "void"}, gates \in StartGates :
          world = World(<< LevelTransitionTrigger(to_level, Vec2(R(200), R(0)),
                                                  Area(R(16), R(0), R(32), R(64))) >>,
                        << PowerUp(<<"start", 1>>, "HighJump", Vec2(R(-60), R(0))),
                           PowerUp(<<"start", 2>>, "WallClimb", Vec2(R(-40), R(10))),
                           PowerUp(<<"start", 3>>, "Swing", Vec2(R(32), R(0))) >>,
                        gates, NoPending, "start")
    /\ \E pos \in { ZERO, Vec2(R(-60), R(0)) }, abilities \in { {}, {"HighJump"} } :
          player = Player(pos, ZERO, abilities, ZERO, NoSwing)
    /\ keys = DefaultIntent
    /\ ppc = 0
    /\ spc = 0
    /\ detect_local = NoPoint
    /\ attach_local = NoPoint
    /\ cmds = NoCmds
    /\ ticks = 0
    /\ hist = [done |-> FALSE, p0 |-> player, p1 |-> player, hit |-> None]
    /\ air = NoAir
    /\ ref = NoRef

BeginLevelUpdate ==
    /\ pc = "fixed"
    /\ ticks < MaxTicks
    /\ pc' = "level"
    /\ ticks' = ticks + 1
    /\ world' = [world EXCEPT
                    !.lpc = 0, !.apc = 0, !.queue = NoQueue,
                    !.old = [geometry |-> geometry_query, swing_points |-> swing_points,
                             triggers |-> world.triggers, power_ups |-> world.power_ups,
                             gates |-> world.gates, pending |-> world.pending]]
    /\ hist' = [done |-> FALSE, p0 |-> player, p1 |-> player, hit |-> None]
    /\ UNCHANGED <<player, geometry_query, swing_points, air, swept_vars, update_vars>>

DetectLevelTransitions ==
    /\ pc = "level"
    /\ world.lpc = 0
    /\ world' = [world EXCEPT
                    !.lpc = 1,
                    !.queue.pending = detect_level_transitions(player, world.triggers, 1)]
    /\ UNCHANGED <<pc, player, geometry_query, swing_points, ticks, hist, air,
                   swept_vars, update_vars>>

\* process_pending_transition despawning the old geometry on the spot
ProcessPendingTransition_despawns_at_once ==
    /\ pc = "level"
    /\ world.lpc = 1
    /\ player' = process_pending_transition(player, world.pending)
    /\ geometry_query' = IF world.pending.present THEN << >> ELSE geometry_query
    /\ world' = [world EXCEPT
                    !.lpc = 2,
                    !.queue.processed = world.pending.present,
                    !.queue.loaded = IF world.pending.present
                                     THEN load_level_from_file(world.pending.to_level)
                                     ELSE LoadErr]
    /\ UNCHANGED <<pc, swing_points, ticks, hist, air, swept_vars, update_vars>>

ProcessPendingTransition ==
    /\ pc = "level"
    /\ world.lpc = 1
    /\ player' = process_pending_transition(player, world.pending)
    /\ world' = [world EXCEPT
                    !.lpc = 2,
                    !.queue.processed = world.pending.present,
                    !.queue.loaded = IF world.pending.present
                                     THEN load_level_from_file(world.pending.to_level)
                                     ELSE LoadErr]
    /\ UNCHANGED <<pc, geometry_query, swing_points, ticks, hist, air,
                   swept_vars, update_vars>>

UpdateAbilityGates ==
    /\ pc = "level"
    /\ world.lpc = 2
    /\ world' = [world EXCEPT
                    !.lpc = 3,
                    !.gates = update_ability_gates(player.abilities, world.gates),
                    !.queue.gate_abilities = player.abilities,
                    !.queue.gate_cmds = gate_commands(player.abilities, world.gates, 1)]
    /\ UNCHANGED <<pc, player, geometry_query, swing_points, ticks, hist, air,
                   swept_vars, update_vars>>

CollectPowerUps ==
    /\ pc = "level"
    /\ world.apc = 0
    /\ player' = collect_power_ups_system(player, world.power_ups)
    /\ world' = [world EXCEPT
                    !.apc = 1,
                    !.queue.collected = { world.power_ups[i].id :
                                            i \in collected(player, world.power_ups) }]
    /\ UNCHANGED <<pc, geometry_query, swing_points, ticks, hist, air,
                   swept_vars, update_vars>>

\* the end of Update: the queued commands are applied
EndLevelUpdate ==
    /\ pc = "level"
    /\ world.lpc = 3
    /\ world.apc = 1
    /\ pc' = "fixed"
    /\ LET applied == apply_commands(geometry_query, swing_points, world)
       IN  /\ geometry_query' = applied.geometry
           /\ swing_points' = applied.swing_points
           /\ world' = applied.world
    /\ UNCHANGED <<player, ticks, hist, air, swept_vars, update_vars>>

LevelNext ==
    \/ BeginFixed
    \/ ApplyGravity
    \/ ResolveCollisions
    \/ UpdateGroundedState
    \/ ApplySlopePhysics
    \/ BeginLevelUpdate
    \/ DetectLevelTransitions
    \/ ProcessPendingTransition
    \/ UpdateAbilityGates
    \/ CollectPowerUps
    \/ EndLevelUpdate

LevelSpec == LevelInit /\ [][LevelNext]_vars


\* C26: the geometry rectangles change only when the commands of an Update
\* are applied, which is between fixed steps: no step of a physics stage
\* and no system of Update changes them, so the four stages of a fixed step
\* see one geometry set; the collider never changes, and the ability set
\* changes inside Update only.
C26_GeometryReadOnlyInStep ==
    [][ /\ ~(pc = "level" /\ pc' = "fixed") => geometry_query' = geometry_query
        /\ (pc \in PhysicsStages \/ pc' \in PhysicsStages) =>
              /\ geometry_query' = geometry_query
              /\ player'.abilities = player.abilities
        /\ player'.collider = player.collider
        /\ player'.abilities # player.abilities => (pc = "level" /\ pc' = "level") ]_vars

\* a physics stage runs in the level a transition has loaded
C26_Witness ==
    /\ pc \in PhysicsStages
    /\ world.current_level = "cave"
    /\ geometry_query = spawned_geometry(CaveLevel)


-----------------------------------------------------------------------------
(* The slope stage applied once to entities of every contact              *)

\* contact normals of length one: flat ground; tilted by 0.08 and by 0.0999
\* radians, inside the flat threshold of 0.1, to either side; tilted by
\* 0.64 radians to either side; a ceiling
SlopeNormals ==
    { Vec2(R(0), R(-1)),
      Vec2(Norm(25, 313), Norm(-312, 313)), Vec2(Norm(-25, 313), Norm(-312, 313)),
      Vec2(Norm(40, 401), Norm(-399, 401)), Vec2(Norm(-40, 401), Norm(-399, 401)),
      Vec2(Norm(3, 5), Norm(-4, 5)), Vec2(Norm(-3, 5), Norm(-4, 5)),
      Vec2(R(0), R(1)) }

SlopeVelocities ==
    { ZERO, Vec2(R(100), R(0)), Vec2(R(-50), R(120)), Vec2(R(0), R(-300)) }

SlopeInit ==
    /\ pc = "slope"
    /\ q = NoQuery
    /\ res = None
    /\ geometry_query = << >>
    /\ swing_points = << >>
    /\ world = NoWorld
    /\ \E vel \in SlopeVelocities, normal \in SlopeNormals, g \in BOOLEAN,
          abilities \in { {}, {"WallClimb"} } :
          player = [Player(ZERO, vel, abilities, ZERO, NoSwing)
                       EXCEPT !.grounded = GroundedState(g, normal)]
    /\ keys = DefaultIntent
    /\ ppc = 0
    /\ spc = 0
    /\ detect_local = NoPoint
    /\ attach_local = NoPoint
    /\ cmds = NoCmds
    /\ ticks = 0
    /\ hist = [done |-> FALSE, p0 |-> player, p1 |-> player, hit |-> None]
    /\ air = NoAir
    /\ ref = NoRef

SlopeNext == ApplySlopePhysics

SlopeSpec == SlopeInit /\ [][SlopeNext]_vars

\* the angle between the normal and straight up is below MIN_SLOPE_ANGLE:
\* the normal points up and its tangent is below tan(0.1)
WithinFlatThreshold(normal) ==
    /\ RLt(normal.y, R(0))
    /\ RLt(RDiv(RAbs(normal.x), RAbs(normal.y)), TAN_MIN_SLOPE_ANGLE)

\* C27: after the slope stage the velocity is the one from before it
\* whenever the entity is airborne and whenever it is grounded on a normal
\* within the flat threshold of straight up, the normal (0,-1) of flat
\* ground among them; the stage changes the velocity only of an entity
\* grounded on a normal tilted beyond the threshold.
C27_SlopeStageFlatOrAirborne ==
    (pc = "fixed" /\ hist.done) =>
        /\ ~hist.p0.grounded.is_grounded => player.vel = hist.p0.vel
        /\ WithinFlatThreshold(hist.p0.grounded.ground_normal) => player.vel = hist.p0.vel
        /\ hist.p0.grounded.ground_normal = Vec2(R(0), R(-1)) => player.vel = hist.p0.vel
        /\ player.vel # hist.p0.vel =>
              /\ hist.p0.grounded.is_grounded
              /\ ~WithinFlatThreshold(hist.p0.grounded.ground_normal)

\* the stage has run on a moving entity grounded on a normal that is
\* tilted, but less than the threshold, and has left its velocity alone
C27_Witness ==
    /\ pc = "fixed"
    /\ hist.done
    /\ hist.p0.grounded.is_grounded
    /\ hist.p0.grounded.ground_normal.x # R(0)
    /\ WithinFlatThreshold(hist.p0.grounded.ground_normal)
    /\ hist.p0.vel # ZERO
    /\ player.vel = hist.p0.vel


-----------------------------------------------------------------------------
(* Level transitions and ability gates, in the frames of LevelSpec        *)

\* an Update has just ended: its commands are applied and no fixed step
\* has begun since; hist.p0 is the player and world.old the level as the
\* Update found them
UpdateEnded == pc = "fixed" /\ world.lpc = 3 /\ ~hist.done

\* the Update processed a pending transition, and the load failed
TransitionProcessed == world.queue.processed
TransitionFailed == world.queue.processed /\ ~world.queue.loaded.ok

\* C28: when the level load of a transition fails, the level geometry in
\* effect and the player's position and velocity after the Update that
\* processed the transition are the same as before it.
C28_FailedLoadKeepsState ==
    (UpdateEnded /\ TransitionFailed) =>
        /\ geometry_query = world.old.geometry
        /\ player.pos = hist.p0.pos
        /\ player.vel = hist.p0.vel

\* the entities of the level that a processed transition leaves behind it:
\* those of the loaded level, or none if the load failed
LoadedLevel == world.queue.loaded.level
GatesWithGeometry ==
    { i \in 1..Len(world.gates) : world.gates[i].has_geometry }

\* C29: a transition is processed exactly when one is pending; when the
\* Update that processed it has ended, the geometry, triggers, power-ups
\* and swing points of the old level are gone (what exists is what the
\* loaded level spawned, nothing if the load failed, and the geometry that
\* gates received in the same Update), no gate that carried geometry is
\* left, the player is at the transition's spawn point and no transition
\* is pending, with a failed load as with a successful one.
C29_TransitionProcessed ==
    UpdateEnded =>
        /\ TransitionProcessed = world.old.pending.present
        /\ TransitionProcessed =>
              /\ player.pos = world.old.pending.spawn_point
              /\ ~world.pending.present
              /\ world.triggers =
                    IF TransitionFailed THEN << >> ELSE spawned_triggers(LoadedLevel)
              /\ world.power_ups =
                    IF TransitionFailed THEN << >> ELSE spawned_power_ups(LoadedLevel)
              /\ swing_points =
                    IF TransitionFailed THEN << >> ELSE spawned_swing_points(LoadedLevel)
              /\ LET base == IF TransitionFailed THEN << >> ELSE spawned_geometry(LoadedLevel)
                 IN  /\ Len(geometry_query) = Len(base) + Cardinality(GatesWithGeometry)
                     /\ SubSeq(geometry_query, 1, Len(base)) = base
                     /\ \A k \in Len(base) + 1 .. Len(geometry_query) :
                           \E i \in GatesWithGeometry :
                               geometry_query[k] = gate_geometry(world.gates[i])
              /\ \A j \in 1..Len(world.old.gates) :
                    world.old.gates[j].has_geometry =>
                        \A i \in 1..Len(world.gates) :
                            world.gates[i].id # world.old.gates[j].id

\* a transition whose load failed has been processed in a level that had
\* geometry, a trigger, a power-up and a swing point, and a gate with
\* geometry
C29_Witness ==
    /\ UpdateEnded
    /\ TransitionFailed
    /\ world.old.geometry # << >>
    /\ world.old.triggers # << >>
    /\ world.old.power_ups # << >>
    /\ world.old.swing_points # << >>
    /\ \E j \in 1..Len(world.old.gates) : world.old.gates[j].has_geometry
    /\ player.pos # hist.p0.pos


\* the gate world.gates[i] existed when update_ability_gates ran in the
\* Update that has ended (a gate spawned by a transition of the same Update
\* is first seen by the system in the next one)
SeenByGates(i) ==
    \E j \in 1..Len(world.old.gates) : world.old.gates[j].id = world.gates[i].id

\* C30: when an Update has ended, update_ability_gates has run and its
\* commands are applied, every gate the system saw has is_blocking true
\* exactly when the ability set the system read lacks the gate's required
\* ability, a blocking gate carries a blocking geometry rectangle equal to
\* its gate area, and a gate whose ability the player holds carries no
\* blocking geometry; as this is stated at the end of every Update, it is
\* stated after every change of the ability set as well.
C30_AbilityGates ==
    UpdateEnded =>
        \A i \in 1..Len(world.gates) : SeenByGates(i) =>
            LET gate == world.gates[i] IN
            /\ gate.is_blocking
                   = (gate.required_ability \notin world.queue.gate_abilities)
            /\ gate.is_blocking =>
                   /\ gate.has_geometry
                   /\ \E k \in 1..Len(geometry_query) :
                          geometry_query[k] = gate_geometry(gate)
            /\ ~gate.is_blocking => ~gate.has_geometry

-----------------------------------------------------------------------------
(* Power-up collection *)

\* the box collect_power_ups_system gives an entity: centred on position
\* plus offset
CollectionBox(pos, collider) ==
    [left |-> RSub(RAdd(pos.x, collider.offset_x), RDiv(collider.width, R(2))),
     right |-> RAdd(RAdd(pos.x, collider.offset_x), RDiv(collider.width, R(2))),
     top |-> RSub(RAdd(pos.y, collider.offset_y), RDiv(collider.height, R(2))),
     bottom |-> RAdd(RAdd(pos.y, collider.offset_y), RDiv(collider.height, R(2)))]

\* the 32 by 32 box of a power-up, centred on its position
PowerUpBox(power_up) ==
    [left |-> RSub(power_up.position.x, R(16)),
     right |-> RAdd(power_up.position.x, R(16)),
     top |-> RSub(power_up.position.y, R(16)),
     bottom |-> RAdd(power_up.position.y, R(16))]

\* two boxes share an interior point
BoxesOverlap(a, b) ==
    /\ RLt(RMax(a.left, b.left), RMin(a.right, b.right))
    /\ RLt(RMax(a.top, b.top), RMin(a.bottom, b.bottom))

PowerUpIds(power_ups) == { power_ups[i].id : i \in 1..Len(power_ups) }

\* C31: in the step of collect_power_ups_system, every power-up whose box
\* overlaps the player's box has its ability added to the ability set and
\* its despawn queued, all of them in that one step; the ability set gains
\* nothing else and loses nothing, and no other power-up is queued.  When
\* the commands of the Update are applied the power-ups queued are gone,
\* and, unless a level transition was processed in that Update, every
\* other power-up is still there, unchanged.
C31_PowerUpCollection ==
    [][/\ (pc = "level" /\ world.apc = 0 /\ world'.apc = 1) =>
           LET box == CollectionBox(player.pos, player.collider)
               over == { i \in 1..Len(world.power_ups) :
                           BoxesOverlap(box, PowerUpBox(world.power_ups[i])) }
           IN  /\ player'.abilities =
                      player.abilities \cup { world.power_ups[i].ability : i \in over }
               /\ world'.queue.collected = { world.power_ups[i].id : i \in over }
               /\ world'.power_ups = world.power_ups
       /\ (pc = "level" /\ pc' = "fixed") =>
           /\ PowerUpIds(world'.power_ups) \cap world.queue.collected = {}
           /\ ~world.queue.processed =>
                 \A i \in 1..Len(world.power_ups) :
                     world.power_ups[i].id \notin world.queue.collected =>
                         \E j \in 1..Len(world'.power_ups) :
                             world'.power_ups[j] = world.power_ups[i]]_vars

\* an Update has ended in which two overlapping power-ups were collected
\* by a player that held one of the abilities already, and a third
\* power-up, whose box only touches the player's, was left
C31_Witness ==
    /\ UpdateEnded
    /\ Cardinality(world.queue.collected) = 2
    /\ "HighJump" \in hist.p0.abilities
    /\ player.abilities = {"HighJump", "WallClimb"}
    /\ Len(world.power_ups) = 1
    /\ Len(world.old.power_ups) = 3

-----------------------------------------------------------------------------
(* The slab test *)

\* the per-axis exit time as the contract states it
AxisExitTime(m, ent_lo, ent_hi, g_lo, g_hi) ==
    IF m = R(0) THEN INFINITY
    ELSE IF RLt(R(0), m) THEN RDiv(RSub(g_hi, ent_lo), m)
    ELSE RDiv(RSub(g_lo, ent_hi), m)

\* the three conditions of the slab test on a query
SlabConditions(query) ==
    LET el == entity_left(query.pos, query.collider)
        er == entity_right(query.pos, query.collider)
        et == entity_top(query.pos, query.collider)
        eb == entity_bottom(query.pos, query.collider)
        gl == geo_left(query.geometry)
        gr == geo_right(query.geometry)
        gt == geo_top(query.geometry)
        gb == geo_bottom(query.geometry)
        etx == AxisEntryTime(query.movement.x, el, er, gl, gr)
        ety == AxisEntryTime(query.movement.y, et, eb, gt, gb)
        xtx == AxisExitTime(query.movement.x, el, er, gl, gr)
        xty == AxisExitTime(query.movement.y, et, eb, gt, gb)
    IN  /\ RLe(RMax(etx, ety), RMin(xtx, xty))
        /\ (RLe(R(0), etx) \/ RLe(R(0), ety))
        /\ RLe(RMax(etx, ety), R(1))

\* C32: swept_aabb_collision reports a collision exactly when the overall
\* entry time is at most the overall exit time, some per-axis entry time is
\* not negative and the overall entry time is at most 1, an axis without
\* displacement having entry time -infinity and exit time +infinity; a
\* displacement that is zero on both axes reports no collision.
C32_SlabTest ==
    pc = "swept" =>
        /\ res.hit <=> SlabConditions(q)
        /\ q.movement = ZERO => ~res.hit

\* a collision reported strictly inside a displacement along the y axis
\* only, the x axis contributing -infinity and +infinity
C32_Witness ==
    /\ pc = "swept"
    /\ res.hit
    /\ q.movement.x = R(0)
    /\ q.movement.y # R(0)
    /\ RLt(R(0), res.time) /\ RLt(res.time, R(1))

-----------------------------------------------------------------------------
(* Non-penetration *)

\* the rectangles whose interior the entity's box overlaps
Penetrated(p, geos) ==
    { i \in 1..Len(geos) : Overlapping(p.pos, p.collider, geos[i]) }

-----------------------------------------------------------------------------
(* Walking: a grounded entity on a floor made of flush rectangles, with    *)
(* move_right held in every frame.  FixedUpdate runs and Update frames     *)
(* alternate in any order; both keep running as long as the game does.     *)

\* floors whose top is at y = 40, of two and of three flush rectangles
WalkLevels ==
    { << LevelGeometry(R(0), R(40), R(100), R(32)),
         LevelGeometry(R(100), R(40), R(100), R(32)) >>,
      << LevelGeometry(R(0), R(40), R(70), R(32)),
         LevelGeometry(R(70), R(40), R(60), R(32)),
         LevelGeometry(R(130), R(40), R(100), R(32)) >> }

\* where the entity's left edge starts
WalkStarts == { R(0), R(10), R(20) }

RightHeld == PlayerIntent(FALSE, TRUE, FALSE, FALSE)

\* the seams of a floor: where one rectangle ends and the next begins
Seams(geos) == { geo_right(geos[i]) : i \in 1..(Len(geos) - 1) }

\* the entity's box lies wholly to the right of every seam
PassedEverySeam ==
    \A x \in Seams(geometry_query) :
        RLe(x, entity_left(player.pos, player.collider))

WalkInit ==
    /\ pc = "fixed"
    /\ q = NoQuery
    /\ res = None
    /\ geometry_query \in WalkLevels
    /\ swing_points = << >>
    /\ world = NoWorld
    /\ \E x \in WalkStarts :
          player = [Player(Vec2(x, R(8)), ZERO, {}, ZERO, NoSwing) EXCEPT
                       !.grounded = GroundedState(TRUE, Vec2(R(0), R(-1))),
                       !.intent = RightHeld]
    /\ keys = RightHeld
    /\ ppc = 0
    /\ spc = 0
    /\ detect_local = NoPoint
    /\ attach_local = NoPoint
    /\ cmds = NoCmds
    /\ ticks = 0
    /\ hist = [done |-> FALSE, p0 |-> player, p1 |-> player, hit |-> None]
    /\ air = NoAir
    /\ ref = NoRef

\* a run of FixedUpdate begins; the walk is followed until the entity is
\* past the last seam
BeginWalkFixed ==
    /\ pc = "fixed"
    /\ ~PassedEverySeam
    /\ pc' = "gravity"
    /\ ppc' = 0
    /\ UNCHANGED <<player, ticks, hist, air, swept_vars, level_vars, keys, spc,
                   detect_local, attach_local, cmds, ref>>

\* the Update schedule of a frame: the five systems of the player chain run
\* once, with move_right held
WalkUpdate ==
    /\ pc = "fixed"
    /\ ~PassedEverySeam
    /\ ppc = 0
    /\ ppc' = 5
    /\ player' = player_chain(player, keys, geometry_query)
    /\ UNCHANGED <<pc, ticks, hist, air, swept_vars, level_vars, keys, spc,
                   detect_local, attach_local, cmds, ref>>

WalkFixedUpdate ==
    \/ BeginWalkFixed
    \/ ApplyGravity
    \/ ResolveCollisions
    \/ UpdateGroundedState
    \/ ApplySlopePhysics

WalkNext ==
    \/ WalkFixedUpdate
    \/ WalkUpdate

\* In a behaviour of WalkNext the steps that change pc are the steps of
\* WalkFixedUpdate and the steps that change ppc to 5 are the steps of
\* WalkUpdate, and each of the two actions below is enabled exactly when the
\* action it stands for is: the fairness conditions of WalkSpec are weak
\* fairness of WalkFixedUpdate and of WalkUpdate, written on pc and ppc alone.
FixedStepTaken ==
    /\ pc = "fixed" => ~PassedEverySeam
    /\ pc' \in {"fixed"} \cup PhysicsStages
    /\ pc' # pc

UpdateTaken ==
    /\ pc = "fixed"
    /\ ~PassedEverySeam
    /\ ppc = 0
    /\ ppc' = 5

\* the fixed timestep keeps firing and frames keep being drawn
WalkSpec ==
    /\ WalkInit
    /\ [][WalkNext]_vars
    /\ WF_pc(FixedStepTaken)
    /\ WF_ppc(UpdateTaken)

\* C34: a grounded entity on a flat floor of flush rectangles, none of them
\* reaching into its vertical extent, with move_right held in every step,
\* eventually has every seam of the floor behind it.
C34_WalkingProgress == <>PassedEverySeam

-----------------------------------------------------------------------------
(* Grounded soundness *)

\* the rectangles that can carry the entity: their top is at or below the
\* entity's bottom edge by less than the ground-check distance, and they
\* share at least a point of x with the entity
GroundSupport(pos, collider, geos) ==
    { i \in 1..Len(geos) :
        /\ RLe(entity_bottom(pos, collider), geo_top(geos[i]))
        /\ RLt(RSub(geo_top(geos[i]), entity_bottom(pos, collider)),
               R(GROUND_CHECK_EPSILON))
        /\ RLe(geo_left(geos[i]), entity_right(pos, collider))
        /\ RLe(entity_left(pos, collider), geo_right(geos[i])) }

\* C35: when update_grounded_state has set is_grounded, some rectangle has
\* its top within the ground-check distance below the entity's bottom edge
\* and overlaps the entity's horizontal extent.
C35_GroundedSoundness ==
    (pc = "slope" /\ player.grounded.is_grounded) =>
        GroundSupport(player.pos, player.collider, geometry_query) # {}

-----------------------------------------------------------------------------
(* The ground normal and the slope stage in the pipeline *)

UP == Vec2(R(0), R(-1))

\* C36: with axis-aligned geometry, whenever update_grounded_state sets
\* is_grounded the ground normal it records is exactly (0,-1), and the slope
\* stage of every fixed step takes its flat-surface exit (or the airborne
\* one) and leaves the velocity as it was.
C36_FlatGroundOnly ==
    [][/\ pc = "classify" =>
            (player'.grounded.is_grounded => player'.grounded.ground_normal = UP)
       /\ pc = "slope" =>
            /\ \/ ~player.grounded.is_grounded
               \/ slope_is_flat(player.grounded.ground_normal)
            /\ player'.vel = player.vel]_vars

\* a fixed step has ended for a grounded entity that moves along the ground,
\* whose velocity the sliding and friction branch would have changed
C36_Witness ==
    /\ pc = "fixed"
    /\ hist.done
    /\ player.grounded.is_grounded
    /\ player.grounded.ground_normal = UP
    /\ player.vel.x # R(0)
    /\ apply_slope_physics_airborne(
          [player EXCEPT !.grounded.ground_normal = Vec2(Norm(3, 5), Norm(-4, 5))]).vel
          # player.vel

-----------------------------------------------------------------------------
(* Rest *)

\* grounded with velocity (0,0), not clinging, not swinging
Resting(p) ==
    /\ p.grounded.is_grounded
    /\ p.vel = ZERO
    /\ ~p.wall.is_clinging
    /\ ~p.swing.present

\* C37: an entity at rest (grounded, velocity (0,0), not clinging, not
\* swinging) with no movement or jump intent is left at the same position,
\* with velocity (0,0) and grounded, by every step of the controller chain,
\* of the swing chain and of the physics stages; by induction, by any
\* number of them.
C37_RestIsFixedPoint ==
    [][(Resting(player) /\ player.intent = DefaultIntent /\ keys' = DefaultIntent) =>
          /\ player'.pos = player.pos
          /\ player'.vel = ZERO
          /\ player'.grounded.is_grounded]_vars

\* the entity stands on a floor and a whole fixed step, begun at rest after
\* a frame without intent, has left it as it was
C37_Witness ==
    /\ pc = "fixed"
    /\ hist.done
    /\ ticks >= 2
    /\ keys = DefaultIntent
    /\ Resting(player)
    /\ hist.p0 = player
    /\ \E i \in GroundSupport(player.pos, player.collider, geometry_query) :
          geo_top(geometry_query[i]) = entity_bottom(player.pos, player.collider)

-----------------------------------------------------------------------------
(* Clinging in the player chain *)

\* C38: in the player chain, whenever apply_wall_climb_movement_system
\* finds is_clinging true a horizontal input is held in that step, and it
\* sets the vertical velocity to the upward climb speed: the branch that
\* sets it to zero is never taken.
C38_NoStaticCling ==
    [][(pc = "update" /\ ppc = 3 /\ ppc' = 4 /\ player.wall.is_clinging) =>
          /\ player.intent.move_left \/ player.intent.move_right
          /\ player'.vel.y = R(-WALL_CLIMB_SPEED)]_vars

\* apply_wall_climb_movement_system has just run on a clinging entity, in a
\* frame after the first
C38_Witness ==
    /\ pc = "update"
    /\ ppc = 4
    /\ ticks >= 2
    /\ player.wall.is_clinging
    /\ player.vel = Vec2(R(0), R(-WALL_CLIMB_SPEED))

-----------------------------------------------------------------------------
(* checkpoint.rs: activation, snapshot, restore, save and load.            *)
(* In CheckpointSpec the variable world holds the Checkpoint entities, the *)
(* resources CurrentGameState and the save file, the unread events of the  *)
(* four event types and the set of checkpoint systems that ran this frame; *)
(* hist counts the events sent so far.  Every event type has one reader,   *)
(* which runs in every frame, so it reads each event once, in the frame it *)
(* was sent or in the next: the unread events are kept as a queue.         *)

ACTIVATION_RANGE == 64

Checkpoint(id, activated, pos) == [id |-> id, activated |-> activated, pos |-> pos]

GameState(id, level, position, abilities, timestamp) ==
    [checkpoint_id |-> id, checkpoint_level |-> level,
     checkpoint_position |-> position,
     unlocked_abilities |-> abilities, timestamp |-> timestamp]

\* Option<GameState>
NoGameState == [present |-> FALSE, state |-> GameState("", "", ZERO, {}, 0)]
SomeGameState(game_state) == [present |-> TRUE, state |-> game_state]

\* the save file: missing, holding the JSON text of a GameState, or holding
\* text that does not parse
NoFile == [exists |-> FALSE, parses |-> FALSE, json |-> NoGameState.state]
CorruptFile == [exists |-> TRUE, parses |-> FALSE, json |-> NoGameState.state]
to_string_pretty(game_state) == [exists |-> TRUE, parses |-> TRUE, json |-> game_state]

\* checkpoint.rs 129-135
within_activation_range(player_pos, checkpoint_pos) ==
    LET dx == RSub(player_pos.x, checkpoint_pos.x)
        dy == RSub(player_pos.y, checkpoint_pos.y)
        distance_squared == RAdd(RMul(dx, dx), RMul(dy, dy))
    IN  RLe(distance_squared, RMul(R(ACTIVATION_RANGE), R(ACTIVATION_RANGE)))

\* the events sent by the loop of checkpoint.rs 124-141 from checkpoint i on
RECURSIVE activation_events(_, _, _)
activation_events(checkpoints, player_pos, i) ==
    IF i > Len(checkpoints) THEN << >>
    ELSE IF ~checkpoints[i].activated
            /\ within_activation_range(player_pos, checkpoints[i].pos)
         THEN << checkpoints[i].id >> \o activation_events(checkpoints, player_pos, i + 1)
         ELSE activation_events(checkpoints, player_pos, i + 1)

\* mutant of checkpoint_activation_system: an activated checkpoint is not
\* skipped
checkpoint_activation_system_again(checkpoints, player_pos) ==
    [checkpoints |->
        [i \in DOMAIN checkpoints |->
            IF within_activation_range(player_pos, checkpoints[i].pos)
            THEN [checkpoints[i] EXCEPT !.activated = TRUE]
            ELSE checkpoints[i]],
     sent |-> activation_events(
                 [i \in DOMAIN checkpoints |-> [checkpoints[i] EXCEPT !.activated = FALSE]],
                 player_pos, 1)]

\* checkpoint.rs 116-143: the checkpoints after the system ran and the
\* CheckpointActivated events it sent
checkpoint_activation_system(checkpoints, player_pos) ==
    [checkpoints |->
        [i \in DOMAIN checkpoints |->
            IF ~checkpoints[i].activated
               /\ within_activation_range(player_pos, checkpoints[i].pos)
            THEN [checkpoints[i] EXCEPT !.activated = TRUE]
            ELSE checkpoints[i]],
     sent |-> activation_events(checkpoints, player_pos, 1)]

\* checkpoint.rs 146-170: CurrentGameState after the events were read (the
\* snapshot of the last one stays) and the number of SaveToDisk events sent
checkpoint_save_system(events, p, current_state, now) ==
    IF events = << >>
    THEN [state |-> current_state, sent |-> 0]
    ELSE [state |-> SomeGameState(GameState(events[Len(events)], "current_level",
                                            p.pos, p.abilities, now)),
          sent |-> Len(events)]

\* mutant of checkpoint_restore_system: the snapshot is taken out of the
\* resource
checkpoint_restore_system_takes(restore_events, current_state, p) ==
    IF restore_events = 0 \/ ~current_state.present
    THEN [player |-> p, state |-> current_state]
    ELSE [player |-> [p EXCEPT !.pos = current_state.state.checkpoint_position,
                               !.abilities = current_state.state.unlocked_abilities],
          state |-> NoGameState]

\* checkpoint.rs 173-195: the player after the RestoreCheckpoint events were
\* read, and the resource, which the system only reads
checkpoint_restore_system(restore_events, current_state, p) ==
    IF restore_events = 0 \/ ~current_state.present
    THEN [player |-> p, state |-> current_state]
    ELSE [player |-> [p EXCEPT !.pos = current_state.state.checkpoint_position,
                               !.abilities = current_state.state.unlocked_abilities],
          state |-> current_state]

\* checkpoint.rs 198-235: the files the system can leave behind; a write
\* that fails twice leaves the old file or a broken one
save_to_disk_system(save_events, current_state, file) ==
    IF save_events = 0 \/ ~current_state.present
    THEN { file }
    ELSE { to_string_pretty(current_state.state), file, CorruptFile }

\* checkpoint.rs 238-274: CurrentGameState after the LoadFromDisk events
\* were read and the number of RestoreCheckpoint events sent
load_from_disk_system(load_events, current_state, file) ==
    IF load_events = 0 \/ ~file.exists \/ ~file.parses
    THEN [state |-> current_state, sent |-> 0]
    ELSE [state |-> SomeGameState(file.json), sent |-> load_events]

CheckpointSystems == {"activation", "save", "restore", "save_to_disk", "load_from_disk"}

\* where the player can be at the start of a frame: out of range of both
\* checkpoints, exactly 64 and just over 64 from the first, within 64 of
\* both
PlayerSpots ==
    { Vec2(R(200), R(0)), Vec2(R(-64), R(0)), Vec2(R(-65), R(0)), Vec2(R(48), R(0)) }

CheckpointWorld(checkpoints, file) ==
    [checkpoints |-> checkpoints,
     current_state |-> NoGameState,
     file |-> file,
     activated_events |-> << >>,
     restore_events |-> 0,
     save_events |-> 0,
     load_events |-> 0,
     ran |-> {}]

CheckpointInit ==
    /\ pc = "update"
    /\ q = NoQuery
    /\ res = None
    /\ geometry_query = << >>
    /\ swing_points = << >>
    /\ \E file \in { NoFile, CorruptFile,
                     to_string_pretty(GameState("cp_00", "current_level",
                                                Vec2(R(300), R(0)), {"Swing"}, 0)) } :
          world = CheckpointWorld(<< Checkpoint("cp_01", FALSE, ZERO),
                                     Checkpoint("cp_02", FALSE, Vec2(R(100), R(0))) >>,
                                  file)
    /\ \E spot \in { Vec2(R(200), R(0)), Vec2(R(-65), R(0)) } :
          player = Player(spot, ZERO, {}, ZERO, NoSwing)
    /\ keys = DefaultIntent
    /\ ppc = 0
    /\ spc = 0
    /\ detect_local = NoPoint
    /\ attach_local = NoPoint
    /\ cmds = NoCmds
    /\ ticks = 0
    /\ hist = [emitted |-> [id \in {"cp_01", "cp_02"} |-> 0], saves |-> 0, snapshots |-> 0]
    /\ air = NoAir
    /\ ref = NoRef

checkpoint_unchanged ==
    <<pc, q, res, geometry_query, swing_points, keys, ppc, spc, detect_local,
      attach_local, cmds, ticks, air, ref>>

Count(seq, id) == Cardinality({ i \in DOMAIN seq : seq[i] = id })

CheckpointActivation ==
    /\ "activation" \notin world.ran
    /\ \E r \in { checkpoint_activation_system(world.checkpoints, player.pos) } :
          /\ world' = [world EXCEPT !.checkpoints = r.checkpoints,
                                    !.activated_events = @ \o r.sent,
                                    !.ran = @ \cup {"activation"}]
          /\ hist' = [hist EXCEPT !.emitted =
                        [id \in DOMAIN @ |-> @[id] + Count(r.sent, id)]]
    /\ UNCHANGED <<player, checkpoint_unchanged>>

CheckpointSave ==
    /\ "save" \notin world.ran
    /\ \E r \in { checkpoint_save_system(world.activated_events, player,
                                         world.current_state, ticks) } :
          /\ world' = [world EXCEPT !.current_state = r.state,
                                    !.activated_events = << >>,
                                    !.save_events = @ + r.sent,
                                    !.ran = @ \cup {"save"}]
          /\ hist' = [hist EXCEPT !.saves = @ + r.sent,
                                  !.snapshots = @ + Len(world.activated_events)]
    /\ UNCHANGED <<player, checkpoint_unchanged>>

CheckpointRestore ==
    /\ "restore" \notin world.ran
    /\ \E r \in { checkpoint_restore_system(world.restore_events, world.current_state,
                                            player) } :
          /\ player' = r.player
          /\ world' = [world EXCEPT !.current_state = r.state,
                                    !.restore_events = 0,
                                    !.ran = @ \cup {"restore"}]
    /\ UNCHANGED <<hist, checkpoint_unchanged>>

SaveToDisk ==
    /\ "save_to_disk" \notin world.ran
    /\ \E file \in save_to_disk_system(world.save_events, world.current_state, world.file) :
          world' = [world EXCEPT !.file = file,
                                 !.save_events = 0,
                                 !.ran = @ \cup {"save_to_disk"}]
    /\ UNCHANGED <<player, hist, checkpoint_unchanged>>

LoadFromDisk ==
    /\ "load_from_disk" \notin world.ran
    /\ \E r \in { load_from_disk_system(world.load_events, world.current_state, world.file) } :
          world' = [world EXCEPT !.current_state = r.state,
                                 !.load_events = 0,
                                 !.restore_events = @ + r.sent,
                                 !.ran = @ \cup {"load_from_disk"}]
    /\ UNCHANGED <<player, hist, checkpoint_unchanged>>

\* the frame ends when the five systems have run; before the next one the
\* player has moved, may have gained an ability, and the application may
\* have asked for a restore or a load
EndCheckpointFrame ==
    /\ world.ran = CheckpointSystems
    /\ ticks < MaxTicks
    /\ ticks' = ticks + 1
    /\ \E spot \in PlayerSpots, gained \in { {}, {"HighJump"} } :
          player' = [player EXCEPT !.pos = spot, !.abilities = @ \cup gained]
    /\ \E request \in { "none", "restore", "load" } :
          world' = [world EXCEPT !.ran = {},
                                 !.restore_events = @ + (IF request = "restore" THEN 1 ELSE 0),
                                 !.load_events = @ + (IF request = "load" THEN 1 ELSE 0)]
    /\ UNCHANGED <<pc, q, res, geometry_query, swing_points, keys, ppc, spc,
                   detect_local, attach_local, cmds, hist, air, ref>>

CheckpointNext ==
    \/ CheckpointActivation
    \/ CheckpointSave
    \/ CheckpointRestore
    \/ SaveToDisk
    \/ LoadFromDisk
    \/ EndCheckpointFrame

CheckpointSpec == CheckpointInit /\ [][CheckpointNext]_vars

Ran(system) == system \notin world.ran /\ system \in world'.ran

\* C39: a checkpoint becomes activated only with the player within 64 units
\* of it and stays activated from then on; it has sent one activation event
\* once it is activated and none before; and the save system, for the
\* activation events it reads, stores a snapshot of the player's current
\* position and ability set as the current game state and sends one
\* save-to-disk request per event.
C39_ActivatesOnce ==
    [][/\ \A i \in DOMAIN world.checkpoints :
            /\ world.checkpoints[i].activated => world'.checkpoints[i].activated
            /\ (~world.checkpoints[i].activated /\ world'.checkpoints[i].activated) =>
                  /\ Ran("activation")
                  /\ within_activation_range(player.pos, world.checkpoints[i].pos)
            /\ hist'.emitted[world.checkpoints[i].id] =
                  IF world'.checkpoints[i].activated THEN 1 ELSE 0
       /\ (Ran("save") /\ world.activated_events # << >>) =>
            /\ world'.current_state.present
            /\ world'.current_state.state.checkpoint_position = player.pos
            /\ world'.current_state.state.unlocked_abilities = player.abilities
            /\ world'.current_state.state.checkpoint_id \in
                  { world.activated_events[k] : k \in DOMAIN world.activated_events }
            /\ world'.save_events = world.save_events + Len(world.activated_events)
       /\ hist'.snapshots + Len(world'.activated_events)
             = hist'.emitted["cp_01"] + hist'.emitted["cp_02"]
       /\ hist'.saves = hist'.snapshots]_vars

\* both checkpoints were activated in one frame, the snapshot of the frame
\* was taken with an ability the player had gained by then, the player has
\* since moved out of range, and every event has been read
C39_Witness ==
    /\ \A i \in DOMAIN world.checkpoints : world.checkpoints[i].activated
    /\ hist.snapshots = 2
    /\ world.activated_events = << >>
    /\ world.current_state.present
    /\ world.current_state.state.checkpoint_position = Vec2(R(48), R(0))
    /\ world.current_state.state.unlocked_abilities = {"HighJump"}
    /\ player.pos = Vec2(R(200), R(0))

\* C40: the restore system, reading a restore request while a snapshot
\* exists, sets the player's position and ability set to the snapshot's and
\* leaves the snapshot as it was; reading one while none exists, it leaves
\* the player's position and ability set as they were.
C40_Restore ==
    [][(Ran("restore") /\ world.restore_events > 0) =>
          /\ world'.current_state = world.current_state
          /\ IF world.current_state.present
             THEN /\ player'.pos = world.current_state.state.checkpoint_position
                  /\ player'.abilities = world.current_state.state.unlocked_abilities
             ELSE /\ player'.pos = player.pos
                  /\ player'.abilities = player.abilities]_vars

\* a restore has put the player, who had gained HighJump since, back at the
\* checkpoint snapshot taken at (-64, 0) with no ability
C40_Witness ==
    /\ "restore" \in world.ran
    /\ world.restore_events = 0
    /\ world.current_state.present
    /\ world.current_state.state.checkpoint_id = "cp_01"
    /\ world.current_state.state.checkpoint_position = Vec2(R(-64), R(0))
    /\ world.current_state.state.unlocked_abilities = {}
    /\ player.pos = Vec2(R(-64), R(0))
    /\ player.abilities = {}
    /\ ticks >= 2

====
